---- MODULE Spec2Model ----
(***************************************************************************)
(* A model of the openrun flow runner (src/src/openrun/flow/runner.py):    *)
(* the driver loop of run_flow, the join trackers, the step tasks it       *)
(* spawns and the event stream it yields; of the state container and the   *)
(* template resolver (core/state.py, core/interpolation.py); and of the    *)
(* flow graph, the switch step and the validator.                          *)
(***************************************************************************)
EXTENDS Naturals, Integers, Sequences, FiniteSets, TLC

\* Cap on the number of launches of one step in one run: a cyclic flow
\* replays its nodes for ever, the guard of the launch actions stops there.
MaxLaunches == 2

-----------------------------------------------------------------------------
\* core/types.py

NO_WAIT == "no_wait"
ALL_SUCCESS == "all_success"
ALL_DONE == "all_done"
FIRST_SUCCESS == "first_success"
JoinMode == {NO_WAIT, ALL_SUCCESS, ALL_DONE, FIRST_SUCCESS}

SUCCESS == "success"
ERROR == "error"
StepRunStatus == {SUCCESS, ERROR}

\* The value None of an optional field (StepError.code, a missing result).
None == "None"

-----------------------------------------------------------------------------
\* Helpers on sequences and maps (Python lists and dicts).

Range(s) == {s[i] : i \in DOMAIN s}

EmptyMap == [k \in {} |-> None]

\* d[k] = v on a dict
MapSet(d, k, v) == [x \in (DOMAIN d) \cup {k} |-> IF x = k THEN v ELSE d[x]]

\* del d[k] / d.pop(k)
MapDel(d, k) == [x \in (DOMAIN d) \ {k} |-> d[x]]

\* All orders in which a set can be iterated (list(a_set)).
Orderings(S) ==
    {q \in [1..Cardinality(S) -> S] : \A i, j \in 1..Cardinality(S) : i # j => q[i] # q[j]}

-----------------------------------------------------------------------------
\* Python values.  A str is a sequence of one-character strings, so that
\* splitting, matching and formatting are computed on the characters.  Every
\* value carries its type in field t: None, str, int, float, bool, list and
\* dict (a dict is the sequence of its <<key, value>> pairs in insertion
\* order).  A float is a whole number f standing for f.0.

VNone == [t |-> "none"]
VStr(s) == [t |-> "str", s |-> s]
VInt(n) == [t |-> "int", n |-> n]
VFloat(f) == [t |-> "float", f |-> f]
VBool(b) == [t |-> "bool", b |-> b]
VList(items) == [t |-> "list", items |-> items]
VDict(pairs) == [t |-> "dict", pairs |-> pairs]

\* The outcome of a call: a returned value, or an exception.
Returns(value) == [raised |-> FALSE, value |-> value]
RaisesError(name) == [raised |-> TRUE, value |-> VStr(<<name>>)]

Digits == <<"0", "1", "2", "3", "4", "5", "6", "7", "8", "9">>

IsDigit(c) == c \in Range(Digits)

DigitValue(c) == (CHOOSE i \in DOMAIN Digits : Digits[i] = c) - 1

\* str.strip() on the blanks of the alphabet
RECURSIVE strip(_)
strip(s) ==
    IF s = << >> THEN s
    ELSE IF Head(s) = " " THEN strip(Tail(s))
    ELSE IF s[Len(s)] = " " THEN strip(SubSeq(s, 1, Len(s) - 1))
    ELSE s

\* str.lower() on the letters of the alphabet
lower(s) ==
    [i \in DOMAIN s |->
        CASE s[i] = "T" -> "t"
          [] s[i] = "F" -> "f"
          [] s[i] = "Y" -> "y"
          [] OTHER -> s[i]]

\* str.split(".")
RECURSIVE split(_)
split(s) ==
    IF \A i \in DOMAIN s : s[i] # "."
    THEN <<s>>
    ELSE LET dot == CHOOSE i \in DOMAIN s : s[i] = "." /\ \A j \in 1..(i - 1) : s[j] # "."
         IN <<SubSeq(s, 1, dot - 1)>> \o split(SubSeq(s, dot + 1, Len(s)))

\* The number written by a non-empty sequence of digits
RECURSIVE DigitsValue(_)
DigitsValue(s) ==
    IF Len(s) = 1 THEN DigitValue(s[1])
    ELSE 10 * DigitsValue(SubSeq(s, 1, Len(s) - 1)) + DigitValue(s[Len(s)])

AllDigits(s) == s # << >> /\ \A i \in DOMAIN s : IsDigit(s[i])

\* int(s) for a str: blanks around, an optional sign, then digits;
\* ValueError otherwise.
int(s) ==
    LET body == strip(s)
        signed == body # << >> /\ Head(body) \in {"+", "-"}
        digits == IF signed THEN Tail(body) ELSE body
    IN IF AllDigits(digits)
       THEN Returns(VInt(IF signed /\ Head(body) = "-"
                         THEN 0 - DigitsValue(digits) ELSE DigitsValue(digits)))
       ELSE RaisesError("ValueError")

\* float(s) for a str, on the numerals with a zero fraction ("1", "1.0");
\* ValueError for anything that is not a numeral.
float_of_str(s) ==
    LET body == strip(s)
        signed == body # << >> /\ Head(body) \in {"+", "-"}
        digits == IF signed THEN Tail(body) ELSE body
        parts == split(digits)
        sign(n) == IF signed /\ Head(body) = "-" THEN 0 - n ELSE n
    IN CASE Len(parts) = 1 /\ AllDigits(parts[1]) ->
                Returns(VFloat(sign(DigitsValue(parts[1]))))
         [] Len(parts) = 2 /\ AllDigits(parts[1]) /\ AllDigits(parts[2])
               /\ DigitsValue(parts[2]) = 0 ->
                Returns(VFloat(sign(DigitsValue(parts[1]))))
         [] OTHER -> RaisesError("ValueError")

\* float(value) for a value that is not a str
float_of(value) ==
    CASE value.t = "int" -> Returns(VFloat(value.n))
      [] value.t = "float" -> Returns(value)
      [] value.t = "bool" -> Returns(VFloat(IF value.b THEN 1 ELSE 0))
      [] OTHER -> RaisesError("TypeError")

\* bool(value) for a value that is not a str
bool_of(value) ==
    CASE value.t = "int" -> value.n # 0
      [] value.t = "float" -> value.f # 0
      [] value.t = "bool" -> value.b
      [] value.t = "list" -> value.items # << >>
      [] value.t = "dict" -> value.pairs # << >>
      [] OTHER -> FALSE

\* The decimal numeral of an integer
RECURSIVE numeral(_)
numeral(n) ==
    IF n < 0 THEN <<"-">> \o numeral(0 - n)
    ELSE IF n < 10 THEN <<Digits[n + 1]>>
    ELSE numeral(n \div 10) \o <<Digits[(n % 10) + 1]>>

\* ", ".join(texts)
RECURSIVE join(_)
join(texts) ==
    IF texts = << >> THEN << >>
    ELSE IF Len(texts) = 1 THEN texts[1]
    ELSE texts[1] \o <<",", " ">> \o join(Tail(texts))

\* repr(value), which str(value) is for everything but a str
RECURSIVE repr(_)
repr(value) ==
    CASE value.t = "none" -> <<"N", "o", "n", "e">>
      [] value.t = "str" -> <<"'">> \o value.s \o <<"'">>
      [] value.t = "int" -> numeral(value.n)
      [] value.t = "float" -> numeral(value.f) \o <<".", "0">>
      [] value.t = "bool" -> IF value.b THEN <<"T", "r", "u", "e">>
                                         ELSE <<"F", "a", "l", "s", "e">>
      [] value.t = "list" ->
            <<"[">> \o join([i \in DOMAIN value.items |-> repr(value.items[i])]) \o <<"]">>
      [] value.t = "dict" ->
            <<"{">> \o join([i \in DOMAIN value.pairs |->
                               repr(VStr(value.pairs[i][1])) \o <<":", " ">>
                                  \o repr(value.pairs[i][2])]) \o <<"}">>

\* str(value)
str(value) == IF value.t = "str" THEN value.s ELSE repr(value)

\* json.dumps(value)
RECURSIVE json_dumps(_)
json_dumps(value) ==
    CASE value.t = "none" -> <<"n", "u", "l", "l">>
      [] value.t = "str" -> <<"\"">> \o value.s \o <<"\"">>
      [] value.t = "int" -> numeral(value.n)
      [] value.t = "float" -> numeral(value.f) \o <<".", "0">>
      [] value.t = "bool" -> IF value.b THEN <<"t", "r", "u", "e">>
                                         ELSE <<"f", "a", "l", "s", "e">>
      [] value.t = "list" ->
            <<"[">> \o join([i \in DOMAIN value.items |-> json_dumps(value.items[i])])
               \o <<"]">>
      [] value.t = "dict" ->
            <<"{">> \o join([i \in DOMAIN value.pairs |->
                               json_dumps(VStr(value.pairs[i][1])) \o <<":", " ">>
                                  \o json_dumps(value.pairs[i][2])]) \o <<"}">>

\* json.loads(s) on the documents without blanks that hold a literal, an
\* integer, or an array or object of at most one such member;
\* JSONDecodeError (a ValueError) otherwise.  A str member has no quote or
\* backslash inside.
json_scalar(s) ==
    CASE s = <<"n", "u", "l", "l">> -> Returns(VNone)
      [] s = <<"t", "r", "u", "e">> -> Returns(VBool(TRUE))
      [] s = <<"f", "a", "l", "s", "e">> -> Returns(VBool(FALSE))
      [] AllDigits(s) /\ (Len(s) = 1 \/ s[1] # "0") -> Returns(VInt(DigitsValue(s)))
      [] Len(s) >= 2 /\ s[1] = "\"" /\ s[Len(s)] = "\""
            /\ \A i \in 2..(Len(s) - 1) : s[i] \notin {"\"", "\\"} ->
            Returns(VStr(SubSeq(s, 2, Len(s) - 1)))
      [] OTHER -> RaisesError("ValueError")

json_loads(s) ==
    CASE s = <<"[", "]">> -> Returns(VList(<< >>))
      [] s = <<"{", "}">> -> Returns(VDict(<< >>))
      [] Len(s) > 2 /\ s[1] = "[" /\ s[Len(s)] = "]" ->
            LET member == json_scalar(SubSeq(s, 2, Len(s) - 1))
            IN IF member.raised THEN member ELSE Returns(VList(<<member.value>>))
      [] Len(s) > 2 /\ s[1] = "{" /\ s[Len(s)] = "}"
            /\ \E c \in 2..(Len(s) - 1) : s[c] = ":" ->
            LET colon == CHOOSE c \in 2..(Len(s) - 1) :
                            s[c] = ":" /\ \A d \in 2..(c - 1) : s[d] # ":"
                key == json_scalar(SubSeq(s, 2, colon - 1))
                member == json_scalar(SubSeq(s, colon + 1, Len(s) - 1))
            IN IF key.raised \/ key.value.t # "str" THEN RaisesError("ValueError")
               ELSE IF member.raised THEN member
               ELSE Returns(VDict(<< <<key.value.s, member.value>> >>))
      [] OTHER -> json_scalar(s)

\* dict.get(key) on the items of a dict
DictGet(pairs, key) ==
    IF \E i \in DOMAIN pairs : pairs[i][1] = key
    THEN pairs[CHOOSE i \in DOMAIN pairs : pairs[i][1] = key][2]
    ELSE VNone

-----------------------------------------------------------------------------
\* core/types.py: StateType

ANY == "any"
TEXT == "text"
NUMBER == "number"
BOOLEAN_ == "boolean"
OBJECT == "object"
ARRAY == "array"
StateType == {ANY, TEXT, NUMBER, BOOLEAN_, OBJECT, ARRAY}

-----------------------------------------------------------------------------
\* core/state.py

\* StateSlot.cast of a slot of the given type
cast(type, value) ==
    IF value.t = "none" THEN Returns(VNone)
    ELSE CASE type = TEXT -> Returns(VStr(str(value)))
           [] type = NUMBER ->
                 IF value.t = "str"
                 THEN (IF int(value.s).raised THEN float_of_str(value.s)
                       ELSE int(value.s))
                 ELSE float_of(value)
           [] type = BOOLEAN_ ->
                 IF value.t = "str"
                 THEN Returns(VBool(lower(value.s) \in
                                      {<<"t", "r", "u", "e">>, <<"1">>,
                                       <<"y", "e", "s">>}))
                 ELSE Returns(VBool(bool_of(value)))
           [] type \in {OBJECT, ARRAY} ->
                 IF value.t = "str" THEN json_loads(value.s) ELSE Returns(value)
           [] OTHER -> Returns(value)

\* StateContainer(): slots maps a name to the type of its slot, values a
\* name to a value.
StateContainer(slots, values) == [slots |-> slots, values |-> values]

\* StateContainer.define
define(st, name, type) == StateContainer(MapSet(st.slots, name, type), st.values)

\* Mutant of set: the value is stored as it is given, slot or no slot.
setWithoutCast(st, name, value) ==
    [raised |-> FALSE, state |-> StateContainer(st.slots, MapSet(st.values, name, value))]

\* Mutant of set: a key that has a value keeps it.
setKeepsFirst(st, name, value) ==
    IF name \in DOMAIN st.values
    THEN [raised |-> FALSE, state |-> st]
    ELSE [raised |-> FALSE,
          state |-> StateContainer(st.slots, MapSet(st.values, name, value))]

\* StateContainer.set: the container after the call, or the exception that
\* cast raised (the container is then as it was).
set(st, name, value) ==
    IF name \in DOMAIN st.slots
    THEN LET casted == cast(st.slots[name], value)
         IN IF casted.raised THEN [raised |-> TRUE, state |-> st]
            ELSE [raised |-> FALSE,
                  state |-> StateContainer(st.slots, MapSet(st.values, name, casted.value))]
    ELSE [raised |-> FALSE,
          state |-> StateContainer(st.slots, MapSet(st.values, name, value))]

\* StateContainer.get
get(st, name, default) ==
    IF name \in DOMAIN st.values THEN st.values[name] ELSE default

\* The loop of get_nested, from the value reached so far
RECURSIVE get_nested_from(_, _, _)
get_nested_from(current, parts, default) ==
    IF parts = << >> THEN current
    ELSE IF current.t = "none" THEN default
    ELSE IF current.t = "list"
    THEN LET index == int(Head(parts))
         IN IF index.raised THEN default
            ELSE IF 0 <= index.value.n /\ index.value.n < Len(current.items)
            THEN get_nested_from(current.items[index.value.n + 1], Tail(parts), default)
            ELSE default
    ELSE IF current.t = "dict"
    THEN LET next == DictGet(current.pairs, Head(parts))
         IN IF next.t = "none" THEN default
            ELSE get_nested_from(next, Tail(parts), default)
    ELSE default

\* StateContainer.get_nested: the first segment is looked up in the
\* values dict, the others in what it holds.
get_nested(st, path, default) ==
    LET parts == split(path)
        first == get(st, Head(parts), VNone)
    IN IF first.t = "none" THEN default
       ELSE get_nested_from(first, Tail(parts), default)

-----------------------------------------------------------------------------
\* core/interpolation.py

\* Mutant of RefEnd: the pattern \{.([^}]+)\}\}, whose second character is
\* anything.
RefEndAnySecond(s, i) ==
    IF i + 1 <= Len(s) /\ s[i] = "{"
          /\ \E j \in (i + 2)..Len(s) : s[j] = "}"
    THEN LET close == CHOOSE j \in (i + 2)..Len(s) :
                         s[j] = "}" /\ \A k \in (i + 2)..(j - 1) : s[k] # "}"
         IN IF close > i + 2 /\ close + 1 <= Len(s) /\ s[close + 1] = "}"
            THEN close ELSE 0
    ELSE 0

\* REF_PATTERN = \{\{([^}]+)\}\} matched at position i of s: the position of
\* the first "}" of the closing braces, or 0 when there is no match at i.
\* [^}]+ takes every character up to the next "}", which must be followed
\* by a second one.
RefEnd(s, i) ==
    IF i + 1 <= Len(s) /\ s[i] = "{" /\ s[i + 1] = "{"
          /\ \E j \in (i + 2)..Len(s) : s[j] = "}"
    THEN LET close == CHOOSE j \in (i + 2)..Len(s) :
                         s[j] = "}" /\ \A k \in (i + 2)..(j - 1) : s[k] # "}"
         IN IF close > i + 2 /\ close + 1 <= Len(s) /\ s[close + 1] = "}"
            THEN close ELSE 0
    ELSE 0

\* Mutant of replace_ref: the reference is left in place.
replace_refKeepsReference(st, group) == <<"{", "{">> \o group \o <<"}", "}">>

\* replace_ref: the text that replaces a reference whose group is given
replace_ref(st, group) ==
    LET path == strip(group)
        value == get_nested(st, path, VNone)
    IN IF value.t = "none" THEN << >>
       ELSE IF value.t \in {"dict", "list"} THEN json_dumps(value)
       ELSE str(value)

\* REF_PATTERN.sub(replace_ref, template) from position i on
RECURSIVE sub(_, _, _)
sub(st, template, i) ==
    IF i > Len(template) THEN << >>
    ELSE LET close == RefEnd(template, i)
         IN IF close = 0
            THEN <<template[i]>> \o sub(st, template, i + 1)
            ELSE replace_ref(st, SubSeq(template, i + 2, close - 1))
                    \o sub(st, template, close + 2)

\* Mutant of resolve_template: the text that comes out is resolved again.
resolve_templateTwice(template, st) == sub(st, sub(st, template, 1), 1)

\* resolve_template, for a template that is a str
resolve_template(template, st) == sub(st, template, 1)

-----------------------------------------------------------------------------
\* steps/base.py: what a step body can do, and the results it builds.

\* One possible behaviour of Step.run: kind "success" returns
\* StepRunResult.success(...), kind "failure" returns StepRunResult.failure(...),
\* kind "direct" returns StepRunResult(...) built by the constructor, kind
\* "raise" lets an exception escape.  fired_ports = << >> stands for an
\* argument that was not given (None).
Outcome(kind, status, ports, cww, code) ==
    [kind |-> kind, status |-> status, fired_ports |-> ports,
     continue_without_waiting |-> cww, code |-> code]

Succeeds(ports) == Outcome("success", SUCCESS, ports, FALSE, None)
FireAndForget(ports) == Outcome("success", SUCCESS, ports, TRUE, None)
Fails(ports, code) == Outcome("failure", ERROR, ports, FALSE, code)
Direct(status, ports, cww) == Outcome("direct", status, ports, cww, None)
Raises == Outcome("raise", ERROR, << >>, FALSE, None)
\* StepSetState.run: state.set(config.key, config.value), then SUCCESS on "default"
SetsState == Outcome("set_state", SUCCESS, <<"default">>, FALSE, None)

\* The result of a task that has not finished
NoResult ==
    [step_id |-> None, status |-> None, fired_ports |-> << >>,
     continue_without_waiting |-> FALSE, code |-> None]

StepRunResult(step_id, status, fired_ports, cww, code) ==
    [step_id |-> step_id, status |-> status, fired_ports |-> fired_ports,
     continue_without_waiting |-> cww, code |-> code]

\* StepRunResult.success: fired_ports or ["default"]
success(step_id, fired_ports, cww) ==
    StepRunResult(step_id, SUCCESS,
                  IF fired_ports # << >> THEN fired_ports ELSE <<"default">>,
                  cww, None)

\* StepRunResult.failure:
\*   fired_ports or ["error"] if "error" in (fired_ports or []) else ["default"]
\* Python parses this as (A or B) if C else D.
failure(step_id, code, fired_ports) ==
    StepRunResult(step_id, ERROR,
                  IF "error" \in Range(fired_ports)
                  THEN (IF fired_ports # << >> THEN fired_ports ELSE <<"error">>)
                  ELSE <<"default">>,
                  FALSE, code)

\* A step of a flow: its port list, its join mode, the behaviours its run
\* can show and whether resolve_config can raise on its config.
\* steps/execution/set_state.py: StepSetStateConfig (value is Interpolated[str])
StepSetStateConfig(key, value) == [key |-> key, value |-> value]

\* The config of a step that has no interpolated field
NoConfig == StepSetStateConfig(<< >>, << >>)

\* "{{" in value
HasRef(value) == \E i \in 1..(Len(value) - 1) : value[i] = "{" /\ value[i + 1] = "{"

\* core/interpolation.py: resolve_value with target type str (cast_to_type
\* returns a str as it is)
resolve_value(value, st) == IF HasRef(value) THEN resolve_template(value, st) ELSE value

\* core/interpolation.py: resolve_config on a StepSetStateConfig: a new
\* config whose interpolated field is resolved
resolve_config(config, st) ==
    StepSetStateConfig(config.key, resolve_value(config.value, st))

Step(ports, join_mode, outcomes, config_raises) ==
    [ports |-> ports, join_mode |-> join_mode, outcomes |-> outcomes,
     config_raises |-> config_raises, config |-> NoConfig]

\* steps/execution/set_state.py: StepSetState
StepSetState(key, value) ==
    [Step(<<"default">>, NO_WAIT, {SetsState}, {FALSE})
        EXCEPT !.config = StepSetStateConfig(key, value)]

\* flow/edge.py
Edge(source, port, target) ==
    [source_step_id |-> source, source_port |-> port, target_step_id |-> target]

-----------------------------------------------------------------------------
\* The flows and trigger ids run_flow is called with.  "Z" is an id that no
\* flow has a step for.

Default == <<"default">>

\* steps/triggers/webhook.py: TriggerWebhook.run returns a SUCCESS result on "default"
Trigger == Step(Default, NO_WAIT, {Direct(SUCCESS, Default, FALSE)}, {FALSE})

\* S1: T -> A -> B
LinearFlow ==
    [steps |-> [s \in {"T", "A", "B"} |->
                  CASE s = "T" -> Trigger
                    [] s = "A" -> Step(Default, NO_WAIT,
                                       {Succeeds(Default), FireAndForget(Default), Raises},
                                       {FALSE, TRUE})
                    [] s = "B" -> Step(Default, NO_WAIT, {Succeeds(Default)}, {FALSE})],
     edges |-> <<Edge("T", "default", "A"), Edge("A", "default", "B")>>,
     triggers |-> {"T", "Z"}]

\* S2/S3: a conditional routes to A on "true" and to B on "false"
ConditionalFlow ==
    [steps |-> [s \in {"T", "A", "B", "C"} |->
                  CASE s = "T" -> Trigger
                    [] s = "C" -> Step(<<"true", "false">>, NO_WAIT,
                                       {Direct(SUCCESS, <<"true">>, FALSE),
                                        Direct(SUCCESS, <<"false">>, FALSE)},
                                       {FALSE, TRUE})
                    [] OTHER -> Step(Default, NO_WAIT, {Succeeds(Default)}, {FALSE})],
     edges |-> <<Edge("T", "default", "C"), Edge("C", "true", "A"),
                 Edge("C", "false", "B")>>,
     triggers |-> {"T"}]

\* A request step ("success"/"error" ports) whose body may return either
\* port, fail with the "error" port, or raise.
RequestFlow ==
    [steps |-> [s \in {"T", "A", "B", "C"} |->
                  CASE s = "T" -> Trigger
                    [] s = "C" -> Step(<<"success", "error">>, NO_WAIT,
                                       {Direct(SUCCESS, <<"success">>, FALSE),
                                        Direct(SUCCESS, <<"error">>, FALSE),
                                        Fails(<<"error">>, "TIMEOUT"),
                                        Raises},
                                       {FALSE})
                    [] OTHER -> Step(Default, NO_WAIT, {Succeeds(Default)}, {FALSE})],
     edges |-> <<Edge("T", "default", "C"), Edge("C", "success", "A"),
                 Edge("C", "error", "B")>>,
     triggers |-> {"T"}]

\* S4/S5: T fans out to A and B, both feed C whose join mode is jm.
DiamondFlow(jm) ==
    [steps |-> [s \in {"T", "A", "B", "C"} |->
                  CASE s = "T" -> Trigger
                    [] s = "A" -> Step(Default, NO_WAIT,
                                       {Succeeds(Default), Fails(<< >>, None)}, {FALSE})
                    [] s = "B" -> Step(Default, NO_WAIT,
                                       {Succeeds(Default), Raises}, {FALSE})
                    [] s = "C" -> Step(Default, jm, {Succeeds(Default), Raises}, {FALSE})],
     edges |-> <<Edge("T", "default", "A"), Edge("T", "default", "B"),
                 Edge("A", "default", "C"), Edge("B", "default", "C")>>,
     triggers |-> {"T", "C"}]

\* B is reached from T and from A, so it can run twice; C joins on B alone.
RejoinFlow ==
    [steps |-> [s \in {"T", "A", "B", "C"} |->
                  CASE s = "T" -> Trigger
                    [] s = "B" -> Step(Default, NO_WAIT,
                                       {Succeeds(Default), Fails(<< >>, None)}, {FALSE})
                    [] s = "C" -> Step(Default, ALL_SUCCESS, {Succeeds(Default)}, {FALSE})
                    [] OTHER -> Step(Default, NO_WAIT, {Succeeds(Default)}, {FALSE})],
     edges |-> <<Edge("T", "default", "A"), Edge("T", "default", "B"),
                 Edge("A", "default", "B"), Edge("B", "default", "C")>>,
     triggers |-> {"T"}]

\* A conditional C sends the run to A or to B, never to both; both feed D
\* whose join mode is jm, so one of D's sources sits on an unfired branch.
BranchJoinFlow(jm) ==
    [steps |-> [s \in {"T", "A", "B", "C", "D"} |->
                  CASE s = "T" -> Trigger
                    [] s = "C" -> Step(<<"true", "false">>, NO_WAIT,
                                       {Direct(SUCCESS, <<"true">>, FALSE),
                                        Direct(SUCCESS, <<"false">>, FALSE)},
                                       {FALSE})
                    [] s = "D" -> Step(Default, jm, {Succeeds(Default)}, {FALSE})
                    [] OTHER -> Step(Default, NO_WAIT,
                                     {Succeeds(Default), Fails(<< >>, None)}, {FALSE})],
     edges |-> <<Edge("T", "default", "C"), Edge("C", "true", "A"),
                 Edge("C", "false", "B"), Edge("A", "default", "D"),
                 Edge("B", "default", "D")>>,
     triggers |-> {"T"}]

\* S1: trigger -> set-state{x: "a"} -> set-state{y: "{{x}}!"}
ChainFlow ==
    [steps |-> [s \in {"T", "A", "B"} |->
                  CASE s = "T" -> Trigger
                    [] s = "A" -> StepSetState(<<"x">>, <<"a">>)
                    [] s = "B" -> StepSetState(<<"y">>, <<"{", "{", "x", "}", "}", "!">>)],
     edges |-> <<Edge("T", "default", "A"), Edge("A", "default", "B")>>,
     triggers |-> {"T"}]

\* A chain that reads what the caller seeded: set-state{y: "{{x}}!"} ->
\* set-state{x: "{{y}}{{n}}"}
SeededChainFlow ==
    [steps |-> [s \in {"T", "A", "B"} |->
                  CASE s = "T" -> Trigger
                    [] s = "A" -> StepSetState(<<"y">>, <<"{", "{", "x", "}", "}", "!">>)
                    [] s = "B" -> StepSetState(<<"x">>, <<"{", "{", "y", "}", "}",
                                                          "{", "{", "n", "}", "}">>)],
     edges |-> <<Edge("T", "default", "A"), Edge("A", "default", "B")>>,
     triggers |-> {"T"}]

\* A cycle A -> A, and an edge to a step the flow does not have.
CycleFlow ==
    [steps |-> [s \in {"T", "A"} |->
                  CASE s = "T" -> Trigger
                    [] OTHER -> Step(Default, NO_WAIT, {Succeeds(Default)}, {FALSE})],
     edges |-> <<Edge("T", "default", "A"), Edge("A", "default", "A"),
                 Edge("T", "default", "Z")>>,
     triggers |-> {"T"}]

\* T fans out to A and B on one port; the config of A may fail to resolve.
FanOutFlow ==
    [steps |-> [s \in {"T", "A", "B"} |->
                  CASE s = "T" -> Trigger
                    [] s = "A" -> Step(Default, NO_WAIT, {Succeeds(Default)}, {FALSE, TRUE})
                    [] OTHER -> Step(Default, NO_WAIT, {Succeeds(Default)}, {FALSE})],
     edges |-> <<Edge("T", "default", "A"), Edge("T", "default", "B")>>,
     triggers |-> {"T"}]

\* T fans out to two set-state steps that write the same key.
RaceFlow ==
    [steps |-> [s \in {"T", "A", "B"} |->
                  CASE s = "T" -> Trigger
                    [] s = "A" -> StepSetState(<<"x">>, <<"a">>)
                    [] s = "B" -> StepSetState(<<"x">>, <<"b">>)],
     edges |-> <<Edge("T", "default", "A"), Edge("T", "default", "B")>>,
     triggers |-> {"T"}]

\* A writes x while B, launched in the same round, reads it; C follows A
\* and reads what A and B wrote: set-state{x: "a"}, set-state{y: "{{x}}"},
\* set-state{z: "{{x}}{{y}}"}
LateBindingFlow ==
    [steps |-> [s \in {"T", "A", "B", "C"} |->
                  CASE s = "T" -> Trigger
                    [] s = "A" -> StepSetState(<<"x">>, <<"a">>)
                    [] s = "B" -> StepSetState(<<"y">>, <<"{", "{", "x", "}", "}">>)
                    [] s = "C" -> StepSetState(<<"z">>, <<"{", "{", "x", "}", "}",
                                                          "{", "{", "y", "}", "}">>)],
     edges |-> <<Edge("T", "default", "A"), Edge("T", "default", "B"),
                 Edge("A", "default", "C")>>,
     triggers |-> {"T"}]

\* Two parallel edges T -> C; C has the ports p and q, both wired to D, and
\* its body fires both, fails with fired_ports = ["q"], or returns an ERROR
\* result on q that it built itself.  D has an edge to a step the flow does
\* not have.
ParallelFlow ==
    [steps |-> [s \in {"T", "C", "D"} |->
                  CASE s = "T" -> Trigger
                    [] s = "C" -> Step(<<"p", "q">>, NO_WAIT,
                                       {Direct(SUCCESS, <<"p", "q">>, FALSE),
                                        Fails(<<"q">>, "E"),
                                        Direct(ERROR, <<"q">>, FALSE)},
                                       {FALSE})
                    [] OTHER -> Step(Default, NO_WAIT, {Succeeds(Default)}, {FALSE})],
     edges |-> <<Edge("T", "default", "C"), Edge("T", "default", "C"),
                 Edge("C", "p", "D"), Edge("C", "q", "D"), Edge("D", "default", "Z")>>,
     triggers |-> {"T"}]

Flows ==
    [f \in {"linear", "conditional", "request", "diamond_no_wait", "diamond_all_success",
            "diamond_all_done", "diamond_first_success", "branch_all_done",
            "branch_first_success", "rejoin", "chain", "chain_seeded", "fanout",
            "race", "late_binding", "parallel", "cycle"} |->
       CASE f = "linear" -> LinearFlow
         [] f = "conditional" -> ConditionalFlow
         [] f = "request" -> RequestFlow
         [] f = "diamond_no_wait" -> DiamondFlow(NO_WAIT)
         [] f = "diamond_all_success" -> DiamondFlow(ALL_SUCCESS)
         [] f = "diamond_all_done" -> DiamondFlow(ALL_DONE)
         [] f = "diamond_first_success" -> DiamondFlow(FIRST_SUCCESS)
         [] f = "branch_all_done" -> BranchJoinFlow(ALL_DONE)
         [] f = "branch_first_success" -> BranchJoinFlow(FIRST_SUCCESS)
         [] f = "rejoin" -> RejoinFlow
         [] f = "chain" -> ChainFlow
         [] f = "chain_seeded" -> SeededChainFlow
         [] f = "fanout" -> FanOutFlow
         [] f = "race" -> RaceFlow
         [] f = "late_binding" -> LateBindingFlow
         [] f = "parallel" -> ParallelFlow
         [] f = "cycle" -> CycleFlow]

StepIds == {"T", "A", "B", "C", "D", "Z"}

\* The initial_state run_flow is called with: the seeded chain gets a
\* state with x = "b", n = 1 and the trigger output body = "a" whose slot
\* n is a NUMBER, the other flows none (run_flow then creates an empty
\* StateContainer).
initial_state(f) ==
    IF f = "chain_seeded"
    THEN StateContainer((<<"n">> :> NUMBER),
                        (<<"x">> :> VStr(<<"b">>)) @@ (<<"n">> :> VInt(1))
                           @@ (<<"body">> :> VStr(<<"a">>)))
    ELSE StateContainer(EmptyMap, EmptyMap)

\* Flow.steps of a flow that is run: the step objects, by id and config
flow_steps(f) ==
    LET present(s) == s \in DOMAIN Flows[f].steps
        ids == SelectSeq(<<"T", "A", "B", "C", "D">>, present)
    IN [i \in DOMAIN ids |-> [id |-> ids[i], config |-> Flows[f].steps[ids[i]].config]]

-----------------------------------------------------------------------------
VARIABLES
    flow,              \* the name of the flow being run
    trigger_step_id,   \* the id run_flow was called with
    pc,                \* the driver's position in run_flow
    pending,           \* set of step ids
    running,           \* dict step id -> task
    join_trackers,     \* dict step id -> arrivals (dict source step id -> result)
    results,           \* list of results
    step_start_times,  \* dict step id -> time
    steps_to_launch,   \* what is left of the list the launch loop iterates
    done,              \* what is left of the set the completion loop iterates
    tasks,             \* every task created: its step, whether it finished, its result
    events,            \* the events yielded so far
    clock,             \* time.perf_counter(): it advances on every read
    state,             \* the StateContainer
    steps,             \* Flow.steps: the step objects of the flow
    edges,             \* Flow.edges of a flow under construction
    call               \* the last call made on the state or the flow, and its outcome

\* The variables of a run
runVars == <<flow, trigger_step_id, pc, pending, running, join_trackers, results,
             step_start_times, steps_to_launch, done, tasks, events, clock>>

vars == <<runVars, state, steps, edges, call>>

\* No call made yet
NoCall == [op |-> "none"]

-----------------------------------------------------------------------------
\* flow/flow.py

TheFlow == Flows[flow]

has_step(step_id) == step_id \in DOMAIN TheFlow.steps

get_step(step_id) == TheFlow.steps[step_id]

\* step.config of the step object the flow holds
step_config(step_id) == steps[CHOOSE i \in DOMAIN steps : steps[i].id = step_id].config

get_edges_from(step_id, port) ==
    {i \in DOMAIN TheFlow.edges :
        /\ TheFlow.edges[i].source_step_id = step_id
        /\ TheFlow.edges[i].source_port = port}

get_edges_to(step_id) ==
    {i \in DOMAIN TheFlow.edges : TheFlow.edges[i].target_step_id = step_id}

-----------------------------------------------------------------------------
\* flow/runner.py: JoinTracker

\* Mutant of record: a source that has an entry keeps it.
recordKeepsFirst(arrivals, result, edge) ==
    IF edge.source_step_id \in DOMAIN arrivals THEN arrivals
    ELSE MapSet(arrivals, edge.source_step_id, result)

\* JoinTracker.record
record(arrivals, result, edge) == MapSet(arrivals, edge.source_step_id, result)

\* Mutant of is_ready: ALL_SUCCESS forgets to look at the statuses.
is_readyIgnoresStatus(arrivals, join_mode, incoming_edges) ==
    LET expected_sources == {TheFlow.edges[i].source_step_id : i \in incoming_edges}
        arrived_sources == DOMAIN arrivals
    IN CASE join_mode = NO_WAIT -> arrived_sources # {}
         [] join_mode = ALL_SUCCESS -> arrived_sources = expected_sources
         [] join_mode = ALL_DONE -> arrived_sources = expected_sources
         [] join_mode = FIRST_SUCCESS ->
               \E s \in arrived_sources : arrivals[s].status = SUCCESS
         [] OTHER -> FALSE

\* Mutant of is_ready: ALL_DONE is satisfied by the first arrival.
is_readyAllDoneAnyArrival(arrivals, join_mode, incoming_edges) ==
    LET expected_sources == {TheFlow.edges[i].source_step_id : i \in incoming_edges}
        arrived_sources == DOMAIN arrivals
    IN CASE join_mode = NO_WAIT -> arrived_sources # {}
         [] join_mode = ALL_SUCCESS ->
               /\ arrived_sources = expected_sources
               /\ \A s \in arrived_sources : arrivals[s].status = SUCCESS
         [] join_mode = ALL_DONE -> arrived_sources # {}
         [] join_mode = FIRST_SUCCESS ->
               \E s \in arrived_sources : arrivals[s].status = SUCCESS
         [] OTHER -> FALSE

\* Mutant of is_ready: FIRST_SUCCESS waits until every source has arrived.
is_readyFirstSuccessWaitsForAll(arrivals, join_mode, incoming_edges) ==
    LET expected_sources == {TheFlow.edges[i].source_step_id : i \in incoming_edges}
        arrived_sources == DOMAIN arrivals
    IN CASE join_mode = NO_WAIT -> arrived_sources # {}
         [] join_mode = ALL_SUCCESS ->
               /\ arrived_sources = expected_sources
               /\ \A s \in arrived_sources : arrivals[s].status = SUCCESS
         [] join_mode = ALL_DONE -> arrived_sources = expected_sources
         [] join_mode = FIRST_SUCCESS ->
               /\ arrived_sources = expected_sources
               /\ \E s \in arrived_sources : arrivals[s].status = SUCCESS
         [] OTHER -> FALSE

\* Mutant of is_ready: NO_WAIT is ready before anything has arrived.
is_readyNoWaitWithoutArrival(arrivals, join_mode, incoming_edges) ==
    LET expected_sources == {TheFlow.edges[i].source_step_id : i \in incoming_edges}
        arrived_sources == DOMAIN arrivals
    IN CASE join_mode = NO_WAIT -> TRUE
         [] join_mode = ALL_SUCCESS ->
               /\ arrived_sources = expected_sources
               /\ \A s \in arrived_sources : arrivals[s].status = SUCCESS
         [] join_mode = ALL_DONE -> arrived_sources = expected_sources
         [] join_mode = FIRST_SUCCESS ->
               \E s \in arrived_sources : arrivals[s].status = SUCCESS
         [] OTHER -> FALSE

\* JoinTracker.is_ready
is_ready(arrivals, join_mode, incoming_edges) ==
    LET expected_sources == {TheFlow.edges[i].source_step_id : i \in incoming_edges}
        arrived_sources == DOMAIN arrivals
    IN CASE join_mode = NO_WAIT -> arrived_sources # {}
         [] join_mode = ALL_SUCCESS ->
               /\ arrived_sources = expected_sources
               /\ \A s \in arrived_sources : arrivals[s].status = SUCCESS
         [] join_mode = ALL_DONE -> arrived_sources = expected_sources
         [] join_mode = FIRST_SUCCESS ->
               \E s \in arrived_sources : arrivals[s].status = SUCCESS
         [] OTHER -> FALSE

-----------------------------------------------------------------------------
\* flow/runner.py: execute_step

\* What the task of step_id returns when the step body behaves as o.
step_result(step_id, o) ==
    CASE o.kind = "success" -> success(step_id, o.fired_ports, o.continue_without_waiting)
      [] o.kind = "failure" -> failure(step_id, o.code, o.fired_ports)
      [] o.kind = "direct" ->
            StepRunResult(step_id, o.status, o.fired_ports, o.continue_without_waiting,
                          o.code)
      [] o.kind = "raise" -> failure(step_id, "EXECUTION_ERROR", << >>)

\* execute_step(step, state, resolved_config) when the step body behaves
\* as o: the result returned and the state the body leaves.  A set-state
\* body writes the state; the exception state.set can raise is caught like
\* any other.
execute_step(step_id, o, st, resolved_config) ==
    IF o.kind = "set_state"
    THEN LET written == set(st, resolved_config.key, VStr(resolved_config.value))
         IN IF written.raised
            THEN [result |-> failure(step_id, "EXECUTION_ERROR", << >>), state |-> st]
            ELSE [result |-> StepRunResult(step_id, o.status, o.fired_ports,
                                           o.continue_without_waiting, o.code),
                  state |-> written.state]
    ELSE [result |-> step_result(step_id, o), state |-> st]

-----------------------------------------------------------------------------
\* Events (events.py)

FlowStarted == [type |-> "FlowStarted"]
StepStarted(step_id) == [type |-> "StepStarted", step_id |-> step_id]
StepCompleted(step_id, result, duration_ms, state_snapshot) ==
    [type |-> "StepCompleted", step_id |-> step_id, result |-> result,
     duration_ms |-> duration_ms, state_snapshot |-> state_snapshot]

\* state_snapshot = None, the default of the event
NoSnapshot == [kind |-> "none", items |-> EmptyMap]

\* Mutant of copy: the dict itself is handed out, not a copy of it.
copyHandsOutTheDict(values) == [kind |-> "alias", items |-> EmptyMap]

\* dict.copy(): a new dict that holds the items the dict has now
copy(values) == [kind |-> "copy", items |-> values]

\* What a holder of a snapshot reads in it: the items of the copy, or, had
\* it been given the dict of the state, the items that dict has now
snapshot_items(state_snapshot, st) ==
    IF state_snapshot.kind = "alias" THEN st.values ELSE state_snapshot.items
FlowCompleted(status) == [type |-> "FlowCompleted", status |-> status]

\* Number of events of a type for a step
CountEvents(type, step_id) ==
    Cardinality({i \in DOMAIN events :
                    /\ events[i].type = type
                    /\ events[i].step_id = step_id})

Launches(step_id) == CountEvents("StepStarted", step_id)

-----------------------------------------------------------------------------
\* flow/runner.py: run_flow

Init ==
    /\ flow \in DOMAIN Flows
    /\ trigger_step_id \in Flows[flow].triggers
    /\ pc = "start"
    /\ pending = {trigger_step_id}
    /\ running = EmptyMap
    /\ join_trackers = [s \in StepIds |-> EmptyMap]
    /\ results = << >>
    /\ step_start_times = EmptyMap
    /\ steps_to_launch = << >>
    /\ done = {}
    /\ tasks = << >>
    /\ events = << >>
    /\ clock = 0
    /\ state = initial_state(flow)
    /\ steps = flow_steps(flow)
    /\ edges = << >>
    /\ call = NoCall

\* yield FlowStarted(...)
EmitFlowStarted ==
    /\ pc = "start"
    /\ events' = Append(events, FlowStarted)
    /\ pc' = "loop"
    /\ UNCHANGED <<state, steps, edges, call, flow, trigger_step_id, pending, running, join_trackers, results,
                   step_start_times, steps_to_launch, done, tasks, clock>>

\* Mutant of Launchable: a step that was launched is not launched again.
LaunchableOnce(step_id) ==
    /\ has_step(step_id)
    /\ Launches(step_id) = 0
    /\ LET incoming_edges == get_edges_to(step_id)
       IN (incoming_edges # {} /\ get_step(step_id).join_mode # NO_WAIT)
             => is_ready(join_trackers[step_id], get_step(step_id).join_mode,
                         incoming_edges)

\* A pending step is selected for launch unless it has incoming edges, a
\* join mode other than NO_WAIT and a tracker that is not ready.
Launchable(step_id) ==
    /\ has_step(step_id)
    /\ LET incoming_edges == get_edges_to(step_id)
       IN (incoming_edges # {} /\ get_step(step_id).join_mode # NO_WAIT)
             => is_ready(join_trackers[step_id], get_step(step_id).join_mode,
                         incoming_edges)

\* Mutant of SelectLaunchable: an id the flow has no step for stays in
\* pending.
SelectLaunchableKeepsUnknown ==
    /\ pc = "loop"
    /\ pending # {} \/ DOMAIN running # {}
    /\ \E order \in Orderings({s \in pending : Launchable(s)}) :
          steps_to_launch' = order
    /\ pc' = "launch"
    /\ UNCHANGED <<state, steps, edges, call, flow, trigger_step_id, pending, running, join_trackers, results,
                   step_start_times, done, tasks, events, clock>>

\* Mutant of SelectLaunchable: one step is selected per round.
SelectLaunchableOne ==
    /\ pc = "loop"
    /\ pending # {} \/ DOMAIN running # {}
    /\ \E order \in Orderings({s \in pending : Launchable(s)}) :
          steps_to_launch' = IF order = << >> THEN order ELSE <<Head(order)>>
    /\ pending' = {s \in pending : has_step(s)}
    /\ pc' = "launch"
    /\ UNCHANGED <<state, steps, edges, call, flow, trigger_step_id, running, join_trackers, results,
                   step_start_times, done, tasks, events, clock>>

\* while pending or running: the selection loop over list(pending)
SelectLaunchable ==
    /\ pc = "loop"
    /\ pending # {} \/ DOMAIN running # {}
    /\ \E order \in Orderings({s \in pending : Launchable(s)}) :
          steps_to_launch' = order
    /\ pending' = {s \in pending : has_step(s)}
    /\ pc' = "launch"
    /\ UNCHANGED <<state, steps, edges, call, flow, trigger_step_id, running, join_trackers, results,
                   step_start_times, done, tasks, events, clock>>

\* while pending or running: both empty, the loop ends
ExitLoop ==
    /\ pc = "loop"
    /\ pending = {} /\ DOMAIN running = {}
    /\ pc' = "final"
    /\ UNCHANGED <<state, steps, edges, call, flow, trigger_step_id, pending, running, join_trackers, results,
                   step_start_times, steps_to_launch, done, tasks, events, clock>>

\* Mutant of RoutedEdges: get_edges_from called without the port filter.
RoutedEdgesAnyPort(result) ==
    {i \in DOMAIN TheFlow.edges : TheFlow.edges[i].source_step_id = result.step_id}

\* The edges that leave the fired ports of a result:
\*   for port in result.fired_ports: for edge in flow.get_edges_from(step_id, port)
RoutedEdges(result) ==
    UNION {get_edges_from(result.step_id, result.fired_ports[p]) :
              p \in DOMAIN result.fired_ports}

\* Mutant of Route: the target is enqueued but its arrival is not recorded.
RouteSkipsRecord(result) ==
    LET targets == {TheFlow.edges[i].target_step_id : i \in RoutedEdges(result)}
    IN /\ join_trackers' = join_trackers
       /\ pending' = pending \cup targets

\* The routing loops: record the arrival in each target's tracker and add
\* the target to pending.
Route(result) ==
    LET routed == RoutedEdges(result)
        targets == {TheFlow.edges[i].target_step_id : i \in routed}
        EdgeTo(s) == TheFlow.edges[CHOOSE i \in routed :
                                      TheFlow.edges[i].target_step_id = s]
    IN /\ join_trackers' =
             [s \in StepIds |->
                IF s \in targets
                THEN record(join_trackers[s], result, EdgeTo(s))
                ELSE join_trackers[s]]
       /\ pending' = pending \cup targets

\* Mutant of LaunchStep: the resolved config is stored in the step.
LaunchStepStoresResolved ==
    /\ pc = "launch"
    /\ steps_to_launch # << >>
    /\ LET step_id == Head(steps_to_launch)
           resolved == resolve_config(step_config(step_id), state)
       IN /\ Launches(step_id) < MaxLaunches
          /\ FALSE \in get_step(step_id).config_raises
          /\ pending' = pending \ {step_id}
          /\ events' = Append(events, StepStarted(step_id))
          /\ step_start_times' = MapSet(step_start_times, step_id, clock)
          /\ clock' = clock + 1
          /\ tasks' = Append(tasks, [step_id |-> step_id, finished |-> FALSE,
                                     result |-> NoResult, config |-> resolved])
          /\ running' = MapSet(running, step_id, Len(tasks) + 1)
          /\ steps' = [i \in DOMAIN steps |->
                         IF steps[i].id = step_id
                         THEN [id |-> step_id, config |-> resolved] ELSE steps[i]]
    /\ steps_to_launch' = Tail(steps_to_launch)
    /\ UNCHANGED <<state, edges, call, flow, trigger_step_id, pc, join_trackers, results, done>>

\* Mutant of LaunchStep: the runner writes an output of the step into the
\* state when it launches it.
LaunchStepInjectsOutputs ==
    /\ pc = "launch"
    /\ steps_to_launch # << >>
    /\ LET step_id == Head(steps_to_launch)
       IN /\ Launches(step_id) < MaxLaunches
          /\ FALSE \in get_step(step_id).config_raises
          /\ pending' = pending \ {step_id}
          /\ events' = Append(events, StepStarted(step_id))
          /\ step_start_times' = MapSet(step_start_times, step_id, clock)
          /\ clock' = clock + 1
          /\ tasks' = Append(tasks, [step_id |-> step_id, finished |-> FALSE,
                                     result |-> NoResult,
                                     config |-> resolve_config(step_config(step_id),
                                                               state)])
          /\ running' = MapSet(running, step_id, Len(tasks) + 1)
          /\ state' = IF step_id = trigger_step_id
                      THEN set(state, <<"body">>, VStr(<< >>)).state
                      ELSE state
    /\ steps_to_launch' = Tail(steps_to_launch)
    /\ UNCHANGED <<steps, edges, call, flow, trigger_step_id, pc, join_trackers, results, done>>

\* One iteration of the launch loop where resolve_config returns: the task
\* is created and stored under the step's id.
LaunchStep ==
    /\ pc = "launch"
    /\ steps_to_launch # << >>
    /\ LET step_id == Head(steps_to_launch)
       IN /\ Launches(step_id) < MaxLaunches
          /\ FALSE \in get_step(step_id).config_raises
          /\ pending' = pending \ {step_id}
          /\ events' = Append(events, StepStarted(step_id))
          /\ step_start_times' = MapSet(step_start_times, step_id, clock)
          /\ clock' = clock + 1
          /\ tasks' = Append(tasks, [step_id |-> step_id, finished |-> FALSE,
                                     result |-> NoResult,
                                     config |-> resolve_config(step_config(step_id),
                                                               state)])
          /\ running' = MapSet(running, step_id, Len(tasks) + 1)
    /\ steps_to_launch' = Tail(steps_to_launch)
    /\ UNCHANGED <<state, steps, edges, call, flow, trigger_step_id, pc, join_trackers, results, done>>

\* Mutant of LaunchConfigError: the error result falls through to routing.
LaunchConfigErrorRoutes ==
    /\ pc = "launch"
    /\ steps_to_launch # << >>
    /\ LET step_id == Head(steps_to_launch)
           result == failure(step_id, "CONFIG_RESOLUTION_ERROR", << >>)
           targets == {TheFlow.edges[i].target_step_id : i \in RoutedEdges(result)}
       IN /\ Launches(step_id) < MaxLaunches
          /\ TRUE \in get_step(step_id).config_raises
          /\ results' = Append(results, result)
          /\ events' = events \o <<StepStarted(step_id), StepCompleted(step_id, result, 0, NoSnapshot)>>
          /\ join_trackers' =
                [s \in StepIds |->
                   IF s \in targets
                   THEN record(join_trackers[s], result, [source_step_id |-> step_id])
                   ELSE join_trackers[s]]
          /\ pending' = (pending \ {step_id}) \cup targets
    /\ steps_to_launch' = Tail(steps_to_launch)
    /\ UNCHANGED <<state, steps, edges, call, flow, trigger_step_id, pc, running, step_start_times,
                   done, tasks, clock>>

\* One iteration of the launch loop where resolve_config raises.
LaunchConfigError ==
    /\ pc = "launch"
    /\ steps_to_launch # << >>
    /\ LET step_id == Head(steps_to_launch)
           result == failure(step_id, "CONFIG_RESOLUTION_ERROR", << >>)
       IN /\ Launches(step_id) < MaxLaunches
          /\ TRUE \in get_step(step_id).config_raises
          /\ pending' = pending \ {step_id}
          /\ results' = Append(results, result)
          /\ events' = events \o <<StepStarted(step_id), StepCompleted(step_id, result, 0, NoSnapshot)>>
    /\ steps_to_launch' = Tail(steps_to_launch)
    /\ UNCHANGED <<state, steps, edges, call, flow, trigger_step_id, pc, running, join_trackers, step_start_times,
                   done, tasks, clock>>

\* Mutant of CheckRunning: "return" where the code has "break".
CheckRunningReturns ==
    /\ pc = "launch"
    /\ steps_to_launch = << >>
    /\ pc' = IF DOMAIN running = {} THEN "done" ELSE "wait"
    /\ UNCHANGED <<state, steps, edges, call, flow, trigger_step_id, pending, running, join_trackers, results,
                   step_start_times, steps_to_launch, done, tasks, events, clock>>

\* Mutant of CheckRunning: "continue" where the code has "break".
CheckRunningContinues ==
    /\ pc = "launch"
    /\ steps_to_launch = << >>
    /\ pc' = IF DOMAIN running = {} THEN "loop" ELSE "wait"
    /\ UNCHANGED <<state, steps, edges, call, flow, trigger_step_id, pending, running, join_trackers, results,
                   step_start_times, steps_to_launch, done, tasks, events, clock>>

\* if not running: break
CheckRunning ==
    /\ pc = "launch"
    /\ steps_to_launch = << >>
    /\ pc' = IF DOMAIN running = {} THEN "final" ELSE "wait"
    /\ UNCHANGED <<state, steps, edges, call, flow, trigger_step_id, pending, running, join_trackers, results,
                   step_start_times, steps_to_launch, done, tasks, events, clock>>

\* Mutant of TaskFinishes: the config is resolved when the body runs.
TaskFinishesResolvesLate(t) ==
    /\ pc \notin {"start", "done"}
    /\ t \in DOMAIN tasks
    /\ ~tasks[t].finished
    /\ \E o \in get_step(tasks[t].step_id).outcomes :
          LET ran == execute_step(tasks[t].step_id, o, state,
                                  resolve_config(step_config(tasks[t].step_id), state))
          IN /\ tasks' = [tasks EXCEPT ![t] = [step_id |-> tasks[t].step_id,
                                                finished |-> TRUE,
                                                result |-> ran.result,
                                                config |-> tasks[t].config]]
             /\ state' = ran.state
    /\ UNCHANGED <<steps, edges, call, flow, trigger_step_id, pc, pending, running, join_trackers, results,
                   step_start_times, steps_to_launch, done, events, clock>>

\* A task that was created runs to its end whenever the event loop gets
\* control; the driver does not see it until it waits.
TaskFinishes(t) ==
    /\ pc \notin {"start", "done"}
    /\ t \in DOMAIN tasks
    /\ ~tasks[t].finished
    /\ \E o \in get_step(tasks[t].step_id).outcomes :
          LET ran == execute_step(tasks[t].step_id, o, state, tasks[t].config)
          IN /\ tasks' = [tasks EXCEPT ![t] = [step_id |-> tasks[t].step_id,
                                                finished |-> TRUE,
                                                result |-> ran.result,
                                                config |-> tasks[t].config]]
             /\ state' = ran.state
    /\ UNCHANGED <<steps, edges, call, flow, trigger_step_id, pc, pending, running, join_trackers, results,
                   step_start_times, steps_to_launch, done, events, clock>>

\* done, _ = await asyncio.wait(running.values(), return_when=FIRST_COMPLETED)
Wait ==
    /\ pc = "wait"
    /\ \E s \in DOMAIN running : tasks[running[s]].finished
    /\ done' = {running[s] : s \in {x \in DOMAIN running : tasks[running[x]].finished}}
    /\ pc' = "process"
    /\ UNCHANGED <<state, steps, edges, call, flow, trigger_step_id, pending, running, join_trackers, results,
                   step_start_times, steps_to_launch, tasks, events, clock>>

\* Mutant of ProcessCompleted: the edges are routed before the event is
\* yielded.
ProcessCompletedRoutesFirst(t) ==
    /\ pc = "process"
    /\ t \in done
    /\ LET step_id == tasks[t].step_id
           result == tasks[t].result
           start_time == IF step_id \in DOMAIN step_start_times
                         THEN step_start_times[step_id] ELSE clock
           duration_ms == ((clock + 1) - start_time) * 1000
       IN /\ results' = Append(results, result)
          /\ running' = MapDel(running, step_id)
          /\ step_start_times' = MapDel(step_start_times, step_id)
          /\ clock' = clock + 2
          /\ IF result.continue_without_waiting
             THEN UNCHANGED <<join_trackers, pending>>
             ELSE Route(result)
          /\ events' = Append(events, StepCompleted(step_id, result, duration_ms,
                                                    copy(state.values)))
    /\ done' = done \ {t}
    /\ pc' = IF done' = {} THEN "loop" ELSE "process"
    /\ UNCHANGED <<state, steps, edges, call, flow, trigger_step_id, steps_to_launch, tasks>>

\* One iteration of the loop over done, up to its yield: the result is
\* appended, the task is removed from running and StepCompleted goes out
\* with a copy of the state values.
ProcessCompleted(t) ==
    /\ pc = "process"
    /\ t \in done
    /\ LET step_id == tasks[t].step_id
           result == tasks[t].result
           start_time == IF step_id \in DOMAIN step_start_times
                         THEN step_start_times[step_id] ELSE clock
           duration_ms == ((clock + 1) - start_time) * 1000
       IN /\ results' = Append(results, result)
          /\ running' = MapDel(running, step_id)
          /\ step_start_times' = MapDel(step_start_times, step_id)
          /\ clock' = clock + 2
          /\ events' = Append(events, StepCompleted(step_id, result, duration_ms,
                                                    copy(state.values)))
    /\ done' = done \ {t}
    /\ pc' = "route"
    /\ UNCHANGED <<state, steps, edges, call, flow, trigger_step_id, pending, join_trackers,
                   steps_to_launch, tasks>>

\* Mutant of RouteCompleted: continue_without_waiting is not looked at.
RouteCompletedAlwaysRoutes ==
    /\ pc = "route"
    /\ Route(results[Len(results)])
    /\ pc' = IF done = {} THEN "loop" ELSE "process"
    /\ UNCHANGED <<state, steps, edges, call, flow, trigger_step_id, running, results,
                   step_start_times, steps_to_launch, done, tasks, events, clock>>

\* The rest of the iteration, after the yield: a fire-and-forget result is
\* skipped, any other is routed along its fired ports; result is the one
\* just appended.
RouteCompleted ==
    /\ pc = "route"
    /\ LET result == results[Len(results)]
       IN IF result.continue_without_waiting
          THEN UNCHANGED <<join_trackers, pending>>
          ELSE Route(result)
    /\ pc' = IF done = {} THEN "loop" ELSE "process"
    /\ UNCHANGED <<state, steps, edges, call, flow, trigger_step_id, running, results,
                   step_start_times, steps_to_launch, done, tasks, events, clock>>

\* Mutant of FinalStatus: any() where the code has all().
FinalStatusAny ==
    IF \E i \in DOMAIN results : results[i].status = SUCCESS
    THEN "succeeded" ELSE "failed"

\* Mutant of FinalStatus: a run without a result has not succeeded.
FinalStatusNeedsResult ==
    IF results # << >> /\ \A i \in DOMAIN results : results[i].status = SUCCESS
    THEN "succeeded" ELSE "failed"

\* final_status
FinalStatus ==
    IF \A i \in DOMAIN results : results[i].status = SUCCESS
    THEN "succeeded" ELSE "failed"

\* yield FlowCompleted(...)
EmitFlowCompleted ==
    /\ pc = "final"
    /\ events' = Append(events, FlowCompleted(FinalStatus))
    /\ pc' = "done"
    /\ UNCHANGED <<state, steps, edges, call, flow, trigger_step_id, pending, running, join_trackers, results,
                   step_start_times, steps_to_launch, done, tasks, clock>>

Next ==
    \/ EmitFlowStarted
    \/ SelectLaunchable
    \/ ExitLoop
    \/ LaunchStep
    \/ LaunchConfigError
    \/ CheckRunning
    \/ \E t \in 1..Len(tasks) : TaskFinishes(t)
    \/ Wait
    \/ \E t \in done : ProcessCompleted(t)
    \/ RouteCompleted
    \/ EmitFlowCompleted

Spec == Init /\ [][Next]_vars

\* The flows without a cycle
AcyclicFlows == DOMAIN Flows \ {"cycle"}

InitAcyclic == Init /\ flow \in AcyclicFlows

\* Runs on acyclic flows in which the consumer keeps iterating the
\* generator and every step body terminates: the event loop always runs
\* the driver or a task when one of them can take a step.
FairSpec == InitAcyclic /\ [][Next]_vars /\ WF_vars(Next)

-----------------------------------------------------------------------------
\* Runs on every flow, the cyclic one included, in which the consumer keeps
\* iterating the generator and every step body terminates.  On the cyclic
\* flow the run is followed up to MaxLaunches launches of a step.
ReplaySpec == Init /\ [][Next]_vars /\ WF_vars(Next)

-----------------------------------------------------------------------------

\* No run is in progress: what the variables of a run hold while the state
\* container or a flow is used on its own.
IdleRun ==
    /\ flow = "linear"
    /\ trigger_step_id = "T"
    /\ pc = "idle"
    /\ pending = {}
    /\ running = EmptyMap
    /\ join_trackers = [s \in StepIds |-> EmptyMap]
    /\ results = << >>
    /\ step_start_times = EmptyMap
    /\ steps_to_launch = << >>
    /\ done = {}
    /\ tasks = << >>
    /\ events = << >>
    /\ clock = 0

-----------------------------------------------------------------------------
\* core/state.py used on its own: a caller defines slots, sets and reads.

\* The names the caller uses; "q" is never written.
StateKeys == {<<"x">>, <<"k">>}

\* The name a slot is defined for
SlotKeys == {<<"x">>}

\* A nested value: {"n": [1, None], "z": None}
NestedValue ==
    VDict(<< <<(<<"n">>), VList(<<VInt(1), VNone>>)>>, <<(<<"z">>), VNone>> >>)

\* The values the caller writes
Values ==
    {VNone, VStr(<<"a">>), VStr(<<"1">>), VStr(<<"[", "1", "]">>), VInt(1),
     VBool(TRUE), VList(<<VStr(<<"a">>), VNone>>), NestedValue}

\* The defaults the caller passes (None when the argument is not given)
Defaults == {VNone, VStr(<<"d">>)}

\* The paths the caller reads
Paths ==
    {<<"x">>, <<"q">>, << >>, <<"x", ".", "0">>, <<"x", ".", "1">>, <<"x", ".", "2">>,
     <<"x", ".", "-", "1">>, <<"x", ".", " ", "0">>, <<"x", ".", "n">>,
     <<"k", ".", "n">>, <<"k", ".", "z">>, <<"k", ".", "q">>,
     <<"k", ".", "n", ".", "0">>, <<"k", ".", "n", ".", "1">>,
     <<"k", ".", "n", ".", "2">>, <<"k", ".", "n", ".", "n">>,
     <<"k", ".", "n", ".", "0", ".", "n">>, <<"k", ".", "n", ".", "1", ".", "n">>,
     <<"k", ".", ".", "n">>}

StateInit ==
    /\ IdleRun
    /\ state \in {StateContainer(EmptyMap, EmptyMap),
                  StateContainer(EmptyMap, (<<"k">> :> NestedValue))}
    /\ steps = << >>
    /\ edges = << >>
    /\ call = NoCall

\* state.define(name, type)
Define(name, type) ==
    /\ state' = define(state, name, type)
    /\ call' = [op |-> "define", name |-> name]
    /\ UNCHANGED <<runVars, steps, edges>>

\* state.set(name, value)
Set(name, value) ==
    /\ state' = set(state, name, value).state
    /\ call' = [op |-> "set", name |-> name, value |-> value,
                raised |-> set(state, name, value).raised]
    /\ UNCHANGED <<runVars, steps, edges>>

\* state.get(name, default)
Get(name, default) ==
    /\ call' = [op |-> "get", name |-> name, default |-> default,
                ret |-> get(state, name, default)]
    /\ UNCHANGED <<runVars, state, steps, edges>>

\* state.get_nested(path, default)
GetNested(path, default) ==
    /\ call' = [op |-> "get_nested", path |-> path, default |-> default,
                ret |-> get_nested(state, path, default)]
    /\ UNCHANGED <<runVars, state, steps, edges>>

StateNext ==
    \/ \E name \in SlotKeys, type \in StateType : Define(name, type)
    \/ \E name \in StateKeys, value \in Values : Set(name, value)
    \/ \E name \in StateKeys \cup {<<"q">>}, default \in Defaults : Get(name, default)
    \/ \E path \in Paths, default \in Defaults : GetNested(path, default)

StateSpec == StateInit /\ [][StateNext]_vars

-----------------------------------------------------------------------------
\* core/interpolation.py used on its own: resolve_template on every
\* template of a bounded length.

\* Longest template
MaxTemplateLen == 6

\* The characters of the templates
Alphabet == {"{", "}", "x", "."}

Templates == UNION {[1..n -> Alphabet] : n \in 0..MaxTemplateLen}

TemplateInit ==
    /\ IdleRun
    /\ state \in {StateContainer(EmptyMap, EmptyMap),
                  StateContainer(EmptyMap, (<<"x">> :> VStr(<<"a">>))),
                  StateContainer(EmptyMap, (<<"x">> :> VStr(<<"{", "{", "x", "}", "}">>))),
                  StateContainer(EmptyMap, (<<"x">> :> VStr(<<"{", "{", "y", "}", "}">>))
                                              @@ (<<"y">> :> VStr(<<"a">>))),
                  StateContainer(EmptyMap,
                                 (<<"x">> :> VDict(<< <<(<<"x">>), VList(<<VInt(1)>>)>> >>)))}
    /\ steps = << >>
    /\ edges = << >>
    /\ \E template \in Templates : call = [op |-> "template", template |-> template]

\* resolve_template(template, state) on the template the caller holds
ResolveTemplate ==
    /\ call.op = "template"
    /\ call' = [op |-> "resolve_template", template |-> call.template,
                ret |-> resolve_template(call.template, state)]
    /\ UNCHANGED <<runVars, state, steps, edges>>

\* resolve_template applied to what the last call returned
ResolveAgain ==
    /\ call.op = "resolve_template"
    /\ call' = [op |-> "resolve_template", template |-> call.ret,
                ret |-> resolve_template(call.ret, state)]
    /\ UNCHANGED <<runVars, state, steps, edges>>

TemplateNext ==
    \/ ResolveTemplate
    \/ ResolveAgain

TemplateSpec == TemplateInit /\ [][TemplateNext]_vars

-----------------------------------------------------------------------------
\* flow/flow.py, steps/ and validation/validator.py: a flow built with
\* add_step and add_edge, its switch step reconfigured, and validated.
\* The flow is the pair of variables steps and edges.

\* steps/triggers/webhook.py: TriggerWebhookConfig
TriggerWebhookConfig(path) == [path |-> path]

\* steps/execution/switch.py: Case
Case(name, value) == [name |-> name, value |-> value]

\* steps/execution/switch.py: StepSwitchConfig
StepSwitchConfig(value, cases) == [value |-> value, cases |-> cases]

\* steps/triggers/webhook.py: TriggerWebhook
TriggerWebhook(id, config) ==
    [id |-> id, type |-> "trigger_webhook", is_trigger |-> TRUE, config |-> config]

\* A StepSetState that is given an id
SetStateStep(id, config) ==
    [id |-> id, type |-> "set_state", is_trigger |-> FALSE, config |-> config]

\* steps/execution/switch.py: StepSwitch
StepSwitch(id, config) ==
    [id |-> id, type |-> "switch", is_trigger |-> FALSE, config |-> config]

\* StepSwitch.ports: [case.name for case in self.config.cases] + ["else"]
switch_ports(config) ==
    [i \in DOMAIN config.cases |-> config.cases[i].name] \o <<"else">>

\* Step.ports: the class's _ports, or the switch's property
ports(step) ==
    CASE step.type = "switch" -> switch_ports(step.config)
      [] step.type = "request" -> <<"success", "error">>
      [] step.type = "conditional" -> <<"true", "false">>
      [] OTHER -> <<"default">>

\* The keys of TriggerWebhook.outputs()
WebhookOutputs ==
    << <<"b", "o", "d", "y">>, <<"h", "e", "a", "d", "e", "r", "s">>,
       <<"m", "e", "t", "h", "o", "d">>, <<"q", "u", "e", "r", "y">> >>

\* [output.key for output in step.outputs()]
outputs(step) == IF step.type = "trigger_webhook" THEN WebhookOutputs ELSE << >>

\* item in list
In(item, list) == \E i \in DOMAIN list : list[i] = item

\* Flow.get_step on the index add_step keeps: the step last added under
\* the id, or None
flow_has_step(ss, step_id) == \E i \in DOMAIN ss : ss[i].id = step_id

flow_get_step(ss, step_id) ==
    ss[CHOOSE i \in DOMAIN ss :
          ss[i].id = step_id /\ \A j \in (i + 1)..Len(ss) : ss[j].id # step_id]

\* Flow.add_step
add_step(ss, step) == Append(ss, step)

\* Mutant of add_edge: the port is not looked up.
add_edgeAnyPort(ss, es, source, target, source_port) ==
    IF flow_has_step(ss, source) /\ flow_has_step(ss, target)
    THEN [raised |-> FALSE, edges |-> Append(es, Edge(source, source_port, target))]
    ELSE [raised |-> TRUE, edges |-> es]

\* Flow.add_edge: the edge list after the call and whether ValueError was
\* raised
add_edge(ss, es, source, target, source_port) ==
    IF ~flow_has_step(ss, source) THEN [raised |-> TRUE, edges |-> es]
    ELSE IF ~In(source_port, ports(flow_get_step(ss, source)))
    THEN [raised |-> TRUE, edges |-> es]
    ELSE IF ~flow_has_step(ss, target) THEN [raised |-> TRUE, edges |-> es]
    ELSE [raised |-> FALSE, edges |-> Append(es, Edge(source, source_port, target))]

\* [e.source_step_id for e in self.get_edges_to(step_id)]
sources_to(es, step_id) ==
    LET to_step(e) == e.target_step_id = step_id
        into == SelectSeq(es, to_step)
    IN [i \in DOMAIN into |-> into[i].source_step_id]

\* Mutant of steps_before_loop: only the sources of the edges into the step
\* are collected, their own predecessors are not.
RECURSIVE steps_before_loopDirectOnly(_, _, _, _, _)
steps_before_loopDirectOnly(ss, es, queue, visited, result) ==
    IF queue = << >> THEN result
    ELSE LET step_id == Head(queue)
         IN IF step_id \in visited
            THEN steps_before_loopDirectOnly(ss, es, Tail(queue), visited, result)
            ELSE IF flow_has_step(ss, step_id)
            THEN steps_before_loopDirectOnly(ss, es, Tail(queue), visited \cup {step_id},
                                             Append(result, flow_get_step(ss, step_id)))
            ELSE steps_before_loopDirectOnly(ss, es, Tail(queue), visited \cup {step_id},
                                             result)

\* The while loop of Flow.steps_before
RECURSIVE steps_before_loop(_, _, _, _, _)
steps_before_loop(ss, es, queue, visited, result) ==
    IF queue = << >> THEN result
    ELSE LET step_id == Head(queue)
         IN IF step_id \in visited
            THEN steps_before_loop(ss, es, Tail(queue), visited, result)
            ELSE IF flow_has_step(ss, step_id)
            THEN steps_before_loop(ss, es, Tail(queue) \o sources_to(es, step_id),
                                   visited \cup {step_id},
                                   Append(result, flow_get_step(ss, step_id)))
            ELSE steps_before_loop(ss, es, Tail(queue), visited \cup {step_id}, result)

\* Flow.steps_before
steps_before(ss, es, step) ==
    steps_before_loop(ss, es, sources_to(es, step.id), {}, << >>)

\* REF_PATTERN.finditer(value) from position i on: match.group(1).strip()
\* of every match, in order
RECURSIVE finditer(_, _)
finditer(value, i) ==
    IF i > Len(value) THEN << >>
    ELSE LET close == RefEnd(value, i)
         IN IF close = 0 THEN finditer(value, i + 1)
            ELSE <<strip(SubSeq(value, i + 2, close - 1))>> \o finditer(value, close + 2)

\* The (field_name, ref) pairs of one interpolated str field
field_refs(field_name, value) ==
    LET refs == finditer(value, 1)
    IN [i \in DOMAIN refs |-> <<field_name, refs[i]>>]

\* extract_refs on each Case of a list, in order
RECURSIVE cases_refs(_)
cases_refs(cases) ==
    IF cases = << >> THEN << >>
    ELSE field_refs("value", Head(cases).value) \o cases_refs(Tail(cases))

\* core/interpolation.py: extract_refs on the config of a step.  The
\* webhook config has no interpolated field, StepSetStateConfig.key is a
\* plain str, and the cases of a switch are configs searched in turn.
extract_refs(step) ==
    CASE step.type = "set_state" -> field_refs("value", step.config.value)
      [] step.type = "switch" ->
            field_refs("value", step.config.value) \o cases_refs(step.config.cases)
      [] OTHER -> << >>

\* The elements of a list
Elements(list) == {list[i] : i \in DOMAIN list}

\* Mutant of get_available_keys_before: only the declared outputs count.
get_available_keys_beforeOutputsOnly(ss, es, step) ==
    LET before == steps_before(ss, es, step)
    IN UNION {Elements(outputs(before[i])) : i \in DOMAIN before}

\* validation/validator.py: get_available_keys_before
get_available_keys_before(ss, es, step) ==
    LET before == steps_before(ss, es, step)
        config_key(upstream) ==
            IF upstream.type = "set_state" /\ upstream.config.key # << >>
            THEN {upstream.config.key} ELSE {}
    IN UNION {Elements(outputs(before[i])) \cup config_key(before[i]) :
                i \in DOMAIN before}

\* validation/validator.py: ValidationError, without its message.  The
\* reference is a str of one kind per finding: the ref of a config, the
\* port of an edge, or the id of an edge (its position in the edge list).
RefError(step_id, field, ref) ==
    [step_id |-> step_id, field |-> field, reference |-> ref, level |-> "error"]

EdgeError(step_id, index) ==
    [step_id |-> step_id, field |-> "edge", edge |-> index, level |-> "error"]

PortError(step_id, port) ==
    [step_id |-> step_id, field |-> "source_port", port |-> port, level |-> "error"]

TriggerWarning(step_id) ==
    [step_id |-> step_id, field |-> "flow", level |-> "warning"]

\* Mutant of step_errors: a step that has several missing references gets
\* one finding.
step_errorsFirstOnly(ss, es, step) ==
    LET before == get_available_keys_before(ss, es, step)
        available_keys ==
            IF step.is_trigger THEN before \cup Elements(outputs(step)) ELSE before
        refs == extract_refs(step)
        missing(pair) == split(pair[2])[1] \notin available_keys
        failed == SelectSeq(refs, missing)
    IN IF failed = << >> THEN << >>
       ELSE <<RefError(step.id, failed[1][1], failed[1][2])>>

\* The errors validate_flow appends for one step
step_errors(ss, es, step) ==
    LET before == get_available_keys_before(ss, es, step)
        available_keys ==
            IF step.is_trigger THEN before \cup Elements(outputs(step)) ELSE before
        refs == extract_refs(step)
        missing(pair) == split(pair[2])[1] \notin available_keys
        failed == SelectSeq(refs, missing)
    IN [i \in DOMAIN failed |-> RefError(step.id, failed[i][1], failed[i][2])]

\* validation/validator.py: validate_flow
RECURSIVE validate_flow_from(_, _, _)
validate_flow_from(ss, es, i) ==
    IF i > Len(ss) THEN << >>
    ELSE step_errors(ss, es, ss[i]) \o validate_flow_from(ss, es, i + 1)

validate_flow(ss, es) == validate_flow_from(ss, es, 1)

\* Mutant of validate_edges_from: the target step is not looked up.
RECURSIVE validate_edges_fromSourceOnly(_, _, _)
validate_edges_fromSourceOnly(ss, es, i) ==
    IF i > Len(es) THEN << >>
    ELSE LET edge == es[i]
             found ==
                IF ~flow_has_step(ss, edge.source_step_id)
                THEN <<EdgeError(edge.source_step_id, i)>>
                ELSE IF ~In(edge.source_port, ports(flow_get_step(ss, edge.source_step_id)))
                THEN <<PortError(edge.source_step_id, edge.source_port)>>
                ELSE << >>
         IN found \o validate_edges_fromSourceOnly(ss, es, i + 1)

\* validation/validator.py: validate_edges
RECURSIVE validate_edges_from(_, _, _)
validate_edges_from(ss, es, i) ==
    IF i > Len(es) THEN << >>
    ELSE LET edge == es[i]
             found ==
                IF ~flow_has_step(ss, edge.source_step_id)
                THEN <<EdgeError(edge.source_step_id, i)>>
                ELSE IF ~flow_has_step(ss, edge.target_step_id)
                THEN <<EdgeError(edge.target_step_id, i)>>
                ELSE IF ~In(edge.source_port, ports(flow_get_step(ss, edge.source_step_id)))
                THEN <<PortError(edge.source_step_id, edge.source_port)>>
                ELSE << >>
         IN found \o validate_edges_from(ss, es, i + 1)

validate_edges(ss, es) == validate_edges_from(ss, es, 1)

\* validation/validator.py: validate_triggers; "0" is UUID(int=0)
validate_triggers(ss) ==
    IF \E i \in DOMAIN ss : ss[i].is_trigger THEN << >>
    ELSE <<TriggerWarning(IF ss # << >> THEN ss[1].id ELSE "0")>>

\* validation/validator.py: validate_all
validate_all(ss, es) ==
    validate_flow(ss, es) \o validate_edges(ss, es) \o validate_triggers(ss)

\* Most edges a flow is given
MaxEdges == 2

\* The steps a caller adds, in this order: a webhook trigger T, a set-state
\* step A and a switch W.
SetStateConfigs ==
    {StepSetStateConfig(<<"x">>, <<"v">>),
     StepSetStateConfig(<<"x">>, <<"{", "{", "b", "o", "d", "y", ".", "k", "}", "}">>),
     StepSetStateConfig(<<"x">>, <<"{", "{", " ", "x", " ", "}", "}">>),
     StepSetStateConfig(<< >>, <<"{", "{", ".", "a", "}", "}">>)}

CaseLists == {<< >>, <<Case("c1", <<"{", "{", "b", "o", "d", "y", "}", "}">>)>>}

StepsToAdd(n) ==
    CASE n = 0 -> {TriggerWebhook("T", TriggerWebhookConfig(<<"/">>))}
      [] n = 1 -> {SetStateStep("A", config) : config \in SetStateConfigs}
      [] n = 2 -> {StepSwitch("W", StepSwitchConfig(<<"{", "{", "x", "}", "}">>, cases)) :
                     cases \in CaseLists}
      [] OTHER -> {}

\* The ids and ports add_edge is called with; no step has id "Z"
EdgeEnds == {"T", "A", "W", "Z"}

EdgePorts == {"default", "c1", "else"}

FlowInit ==
    /\ IdleRun
    /\ state = StateContainer(EmptyMap, EmptyMap)
    /\ steps = << >>
    /\ edges = << >>
    /\ call = NoCall

\* flow.add_step(step)
AddStep ==
    \E step \in StepsToAdd(Len(steps)) :
        /\ steps' = add_step(steps, step)
        /\ call' = [op |-> "add_step", step_id |-> step.id]
        /\ UNCHANGED <<runVars, state, edges>>

\* flow.add_edge(source, target, source_port)
AddEdge ==
    \E source \in EdgeEnds, target \in EdgeEnds, source_port \in EdgePorts :
        LET ret == add_edge(steps, edges, source, target, source_port)
        IN /\ Len(edges) < MaxEdges
           /\ edges' = ret.edges
           /\ call' = [op |-> "add_edge", source |-> source, target |-> target,
                       source_port |-> source_port, raised |-> ret.raised]
           /\ UNCHANGED <<runVars, state, steps>>

\* step.config.cases = cases, on the switch of the flow
SetCases ==
    \E i \in DOMAIN steps, cases \in CaseLists :
        /\ steps[i].type = "switch"
        /\ steps[i].config.cases # cases
        /\ steps' = [steps EXCEPT ![i].config.cases = cases]
        /\ call' = [op |-> "set_cases", step_id |-> steps[i].id]
        /\ UNCHANGED <<runVars, state, edges>>

\* validate_all(flow)
Validate ==
    /\ call' = [op |-> "validate_all", errors |-> validate_all(steps, edges)]
    /\ UNCHANGED <<runVars, state, steps, edges>>

FlowNext ==
    \/ AddStep
    \/ AddEdge
    \/ SetCases
    \/ Validate

FlowSpec == FlowInit /\ [][FlowNext]_vars

-----------------------------------------------------------------------------
\* validation/validator.py and Flow.steps_before on flows given as they
\* are: Flow(steps=[...], edges=[...]) takes any edge list, so an edge may
\* name a step the flow does not have or a port its source does not have.

\* The step lists of the flows: the trigger, a set-state step and a switch
GraphSteps ==
    {<<TriggerWebhook("T", TriggerWebhookConfig(<<"/">>)),
       SetStateStep("A", config),
       StepSwitch("W", StepSwitchConfig(<<"{", "{", "x", "}", "}">>, cases))>> :
        config \in SetStateConfigs, cases \in CaseLists}

\* The edges of the flows; no step has id "Z"
GraphEdges ==
    {Edge(end[1], end[2], target) :
        end \in {<<"T", "default">>, <<"T", "c1">>, <<"A", "default">>,
                 <<"W", "default">>, <<"W", "c1">>, <<"Z", "default">>},
        target \in {"A", "W", "Z"}}

GraphInit ==
    /\ IdleRun
    /\ state = StateContainer(EmptyMap, EmptyMap)
    /\ steps \in GraphSteps
    /\ edges \in UNION {[1..n -> GraphEdges] : n \in 0..MaxEdges}
    /\ call = NoCall

\* validate_edges(flow)
ValidateEdges ==
    /\ call' = [op |-> "validate_edges", errors |-> validate_edges(steps, edges)]
    /\ UNCHANGED <<runVars, state, steps, edges>>

\* validate_flow(flow)
ValidateFlow ==
    /\ call' = [op |-> "validate_flow", errors |-> validate_flow(steps, edges)]
    /\ UNCHANGED <<runVars, state, steps, edges>>

\* flow.steps_before(step)
StepsBefore ==
    \E i \in DOMAIN steps :
        /\ call' = [op |-> "steps_before", step_id |-> steps[i].id,
                    ret |-> steps_before(steps, edges, steps[i])]
        /\ UNCHANGED <<runVars, state, steps, edges>>

GraphNext ==
    \/ ValidateEdges
    \/ ValidateFlow
    \/ StepsBefore
    \/ SetCases

GraphSpec == GraphInit /\ [][GraphNext]_vars

-----------------------------------------------------------------------------
\* steps/execution/switch.py used on its own: a switch step whose config is
\* rewritten, whose ports are read and which is run on its config.

\* Mutant of StepSwitch_run: the last matching case wins.
StepSwitch_runLastMatch(step_id, config) ==
    LET matching == {i \in DOMAIN config.cases : config.cases[i].value = config.value}
    IN IF matching = {}
       THEN StepRunResult(step_id, SUCCESS, <<"else">>, FALSE, None)
       ELSE StepRunResult(step_id, SUCCESS,
                          <<config.cases[CHOOSE i \in matching :
                                            \A j \in matching : j <= i].name>>,
                          FALSE, None)

\* StepSwitch.run: the loop over config.cases returns at the first case
\* whose value equals config.value; after the loop the else port fires
RECURSIVE StepSwitch_run(_, _)
StepSwitch_run(step_id, config) ==
    IF config.cases = << >>
    THEN StepRunResult(step_id, SUCCESS, <<"else">>, FALSE, None)
    ELSE IF config.value = Head(config.cases).value
    THEN StepRunResult(step_id, SUCCESS, <<Head(config.cases).name>>, FALSE, None)
    ELSE StepSwitch_run(step_id, [config EXCEPT !.cases = Tail(config.cases)])

\* Most cases a switch is given
MaxCases == 2

\* The cases of a switch and the value it switches on
SwitchCases == {Case(name, value) : name \in {"c1", "c2"}, value \in {<<"a">>, <<"b">>}}

SwitchCaseLists == UNION {[1..n -> SwitchCases] : n \in 0..MaxCases}

SwitchValues == {<<"a">>, <<"b">>, <<"c">>}

SwitchInit ==
    /\ IdleRun
    /\ state = StateContainer(EmptyMap, EmptyMap)
    /\ \E value \in SwitchValues, cases \in SwitchCaseLists :
          steps = <<StepSwitch("W", StepSwitchConfig(value, cases))>>
    /\ edges = << >>
    /\ call = NoCall

\* step.config.cases = cases
Reconfigure ==
    \E cases \in SwitchCaseLists :
        /\ steps[1].type = "switch"
        /\ steps[1].config.cases # cases
        /\ steps' = [steps EXCEPT ![1].config.cases = cases]
        /\ call' = [op |-> "set_cases", step_id |-> steps[1].id]
        /\ UNCHANGED <<runVars, state, edges>>

\* step.ports
ReadPorts ==
    /\ call' = [op |-> "ports", ret |-> ports(steps[1])]
    /\ UNCHANGED <<runVars, state, steps, edges>>

\* await step.run(state, step.config)
RunSwitch ==
    /\ call' = [op |-> "run", ret |-> StepSwitch_run(steps[1].id, steps[1].config)]
    /\ UNCHANGED <<runVars, state, steps, edges>>

SwitchNext ==
    \/ Reconfigure
    \/ ReadPorts
    \/ RunSwitch

SwitchSpec == SwitchInit /\ [][SwitchNext]_vars

-----------------------------------------------------------------------------
\* steps/: the run method of every built-in step, called as
\* await step.run(state, step.config) on one step at a time.  A run gives
\* the result it returns, or raised = TRUE when an exception escapes, and
\* the state container as the run leaves it.

Ran(ret, st) == [raised |-> FALSE, ret |-> ret, state |-> st]

Escaped(st) == [raised |-> TRUE, ret |-> NoResult, state |-> st]

\* state.set(name, value) inside a run: the run goes on with the new
\* container, or the exception of the cast escapes
SetThen(st, name, value, ret) ==
    LET stored == set(st, name, value)
    IN IF stored.raised THEN Escaped(st) ELSE Ran(ret, stored.state)

\* steps/triggers/webhook.py: TriggerWebhook.run
TriggerWebhook_run(step_id, st) ==
    Ran(StepRunResult(step_id, SUCCESS, <<"default">>, FALSE, None), st)

\* steps/triggers/event.py: TriggerEvent.run
TriggerEvent_run(step_id, st) ==
    Ran(StepRunResult(step_id, SUCCESS, <<"default">>, FALSE, None), st)

\* steps/triggers/schedule.py: TriggerSchedule.run
TriggerSchedule_run(step_id, st) ==
    Ran(StepRunResult(step_id, SUCCESS, <<"default">>, FALSE, None), st)

\* steps/execution/conversation.py: StepConversationStart.run
StepConversationStart_run(step_id, st) ==
    Ran(StepRunResult(step_id, SUCCESS, <<"default">>, FALSE, None), st)

\* steps/execution/conversation.py: StepUserMessage.run
StepUserMessage_run(step_id, st) ==
    Ran(StepRunResult(step_id, SUCCESS, <<"default">>, FALSE, None), st)

\* steps/execution/set_state.py: StepSetState.run
StepSetState_run(step_id, st, config) ==
    SetThen(st, config.key, VStr(config.value),
            StepRunResult(step_id, SUCCESS, <<"default">>, FALSE, None))

\* steps/execution/reply.py: StepReply.run
StepReply_run(step_id, st, config) ==
    SetThen(st, <<"r", "e", "p", "l", "y">>, VStr(config.template),
            StepRunResult(step_id, SUCCESS, <<"default">>, FALSE, None))

\* steps/execution/delay.py: StepDelay.run.  A str is converted with
\* float(), which can raise; the sleep ends and the seconds are stored.
StepDelay_run(step_id, st, config) ==
    LET seconds == IF config.seconds.t = "str" THEN float_of_str(config.seconds.s)
                   ELSE Returns(config.seconds)
    IN IF seconds.raised THEN Escaped(st)
       ELSE SetThen(st, <<"d", "e", "l", "a", "y", "e", "d", "_",
                          "s", "e", "c", "o", "n", "d", "s">>,
                    seconds.value,
                    StepRunResult(step_id, SUCCESS, <<"default">>, FALSE, None))

\* ord(c) of the characters the conditions are made of
Ord(c) == CASE c = "1" -> 49 [] c = "2" -> 50 [] c = "a" -> 97

\* left < right on two str
RECURSIVE str_less(_, _)
str_less(left, right) ==
    IF right = << >> THEN FALSE
    ELSE IF left = << >> THEN TRUE
    ELSE IF Head(left) # Head(right) THEN Ord(Head(left)) < Ord(Head(right))
    ELSE str_less(Tail(left), Tail(right))

\* right in left on two str
str_in(right, left) ==
    \E k \in 1..(Len(left) - Len(right) + 1) :
        SubSeq(left, k, k + Len(right) - 1) = right

\* steps/execution/conditional.py: evaluate_condition
evaluate_condition(left, operator, right) ==
    LET fl == float_of_str(left)
        fr == float_of_str(right)
        numbers == ~fl.raised /\ ~fr.raised
    IN CASE operator = "equals" -> left = right
         [] operator = "not_equals" -> left # right
         [] operator = "contains" -> str_in(right, left)
         [] operator = "not_contains" -> ~str_in(right, left)
         [] operator = "greater_than" ->
               IF numbers THEN fl.value.f > fr.value.f ELSE str_less(right, left)
         [] operator = "less_than" ->
               IF numbers THEN fl.value.f < fr.value.f ELSE str_less(left, right)
         [] OTHER -> FALSE

\* Mutant of StepConditional.run: the port is the operator's name.
StepConditional_runFiresOperator(step_id, st, config) ==
    Ran(StepRunResult(step_id, SUCCESS, <<config.operator>>, FALSE, None), st)

\* steps/execution/conditional.py: StepConditional.run
StepConditional_run(step_id, st, config) ==
    LET result == evaluate_condition(config.left, config.operator, config.right)
    IN Ran(StepRunResult(step_id, SUCCESS,
                         <<IF result THEN "true" ELSE "false">>, FALSE, None), st)

\* What the HTTP client does with a request: a response with a status
\* code, a timeout, another request error, or a URL that validate_safe_url
\* rejects
Responses ==
    {[kind |-> "response", status_code |-> code] : code \in {200, 399, 400, 500}}
       \cup {[kind |-> kind, status_code |-> 0] :
                kind \in {"timeout", "request_error", "invalid_url"}}

\* steps/execution/request.py: StepRequest.run.  The three state.set calls
\* store the body, the status code and the headers.  The cast of the body,
\* a str, raises ValueError only, which the last except clause catches;
\* the cast of the headers, a dict, raises TypeError only, which escapes.
StepRequest_run(step_id, st, response) ==
    LET body == set(st, <<"r", "e", "s", "p", "o", "n", "s", "e">>, VStr(<<"o", "k">>))
        code == set(body.state, <<"s", "t", "a", "t", "u", "s", "_", "c", "o", "d", "e">>,
                    VInt(response.status_code))
        headers == set(code.state, <<"r", "e", "s", "p", "o", "n", "s", "e", "_",
                                     "h", "e", "a", "d", "e", "r", "s">>, VDict(<< >>))
        port == IF response.status_code >= 400 THEN "error" ELSE "success"
    IN CASE response.kind = "timeout" ->
               Ran(failure(step_id, "TIMEOUT", <<"error">>), st)
         [] response.kind = "request_error" ->
               Ran(failure(step_id, "REQUEST_ERROR", <<"error">>), st)
         [] response.kind = "invalid_url" ->
               Ran(failure(step_id, "INVALID_URL", <<"error">>), st)
         [] OTHER ->
               IF body.raised THEN Ran(failure(step_id, "INVALID_URL", <<"error">>), st)
               ELSE IF code.raised THEN Escaped(body.state)
               ELSE IF headers.raised THEN Escaped(code.state)
               ELSE Ran(StepRunResult(step_id, SUCCESS, <<port>>, FALSE, None),
                        headers.state)

\* A built-in step that has no config field the run reads
BuiltinStep(id, type, is_trigger) ==
    [id |-> id, type |-> type, is_trigger |-> is_trigger, config |-> NoConfig]

\* The strings the conditions compare
Operands == {<<"1">>, <<"2">>, <<"a">>, <<"a", "1">>}

Operators == {"equals", "not_equals", "contains", "not_contains",
              "greater_than", "less_than"}

\* One step of every built-in class
BuiltinSteps ==
    {TriggerWebhook("S", TriggerWebhookConfig(<<"/">>)),
     BuiltinStep("S", "trigger_event", TRUE),
     BuiltinStep("S", "trigger_schedule", TRUE),
     BuiltinStep("S", "conversation_start", TRUE),
     BuiltinStep("S", "user_message", FALSE),
     BuiltinStep("S", "request", FALSE)}
       \cup {SetStateStep("S", config) : config \in SetStateConfigs}
       \cup {[BuiltinStep("S", "reply", FALSE) EXCEPT !.config = [template |-> template]] :
                template \in {<< >>, <<"h", "i">>}}
       \cup {[BuiltinStep("S", "delay", FALSE) EXCEPT !.config = [seconds |-> seconds]] :
                seconds \in {VFloat(0), VInt(1), VStr(<<"1">>), VStr(<<"a">>)}}
       \cup {[BuiltinStep("S", "conditional", FALSE)
                 EXCEPT !.config = [left |-> left, operator |-> operator, right |-> right]] :
                left \in Operands, operator \in Operators, right \in Operands}
       \cup {StepSwitch("S", StepSwitchConfig(value, cases)) :
                value \in SwitchValues, cases \in SwitchCaseLists}

\* The state slots a flow may have defined before the step runs
BuiltinStates ==
    {StateContainer(EmptyMap, EmptyMap),
     StateContainer((<<"s", "t", "a", "t", "u", "s", "_", "c", "o", "d", "e">> :> NUMBER)
                       @@ (<<"x">> :> NUMBER),
                    EmptyMap),
     StateContainer((<<"r", "e", "s", "p", "o", "n", "s", "e">> :> NUMBER), EmptyMap),
     StateContainer((<<"r", "e", "s", "p", "o", "n", "s", "e", "_",
                       "h", "e", "a", "d", "e", "r", "s">> :> NUMBER), EmptyMap)}

BuiltinInit ==
    /\ IdleRun
    /\ state \in BuiltinStates
    /\ \E step \in BuiltinSteps : steps = <<step>>
    /\ edges = << >>
    /\ call = NoCall

\* step.run(state, step.config), dispatched on the class of the step
Step_run(step, st, response) ==
    CASE step.type = "trigger_webhook" -> TriggerWebhook_run(step.id, st)
      [] step.type = "trigger_event" -> TriggerEvent_run(step.id, st)
      [] step.type = "trigger_schedule" -> TriggerSchedule_run(step.id, st)
      [] step.type = "conversation_start" -> StepConversationStart_run(step.id, st)
      [] step.type = "user_message" -> StepUserMessage_run(step.id, st)
      [] step.type = "set_state" -> StepSetState_run(step.id, st, step.config)
      [] step.type = "reply" -> StepReply_run(step.id, st, step.config)
      [] step.type = "delay" -> StepDelay_run(step.id, st, step.config)
      [] step.type = "conditional" -> StepConditional_run(step.id, st, step.config)
      [] step.type = "request" -> StepRequest_run(step.id, st, response)
      [] step.type = "switch" -> Ran(StepSwitch_run(step.id, step.config), st)

\* await step.run(state, step.config)
RunBuiltin ==
    \E response \in Responses :
        LET ran == Step_run(steps[1], state, response)
        IN /\ call' = [op |-> "run", raised |-> ran.raised, ret |-> ran.ret]
           /\ state' = ran.state
           /\ UNCHANGED <<runVars, steps, edges>>

BuiltinNext ==
    \/ RunBuiltin
    \/ Reconfigure

BuiltinSpec == BuiltinInit /\ [][BuiltinNext]_vars

-----------------------------------------------------------------------------
\* Vocabulary of the properties

Last(q) == q[Len(q)]

IsStepEvent(e) == e.type \in {"StepStarted", "StepCompleted"}

\* The StepCompleted events, by index
Completions == {i \in DOMAIN events : events[i].type = "StepCompleted"}

\* The source steps of the edges into a step
Sources(step_id) == {TheFlow.edges[i].source_step_id : i \in get_edges_to(step_id)}

\* The result carried by event i sends an arrival to step_id: it comes from
\* a task (not from a failed config resolution), it is not fire-and-forget
\* and one of its fired ports has an edge to step_id.
RoutesTo(i, step_id) ==
    /\ i \in Completions
    /\ events[i].result.code # "CONFIG_RESOLUTION_ERROR"
    /\ ~events[i].result.continue_without_waiting
    /\ \E p \in DOMAIN events[i].result.fired_ports :
          \E e \in get_edges_from(events[i].step_id, events[i].result.fired_ports[p]) :
             TheFlow.edges[e].target_step_id = step_id

-----------------------------------------------------------------------------
\* C1: in every run exactly one FlowStarted and one FlowCompleted are
\* emitted, FlowStarted is the first event, FlowCompleted is the last one
\* (emitted once the run is over), and every event between them is a
\* StepStarted or a StepCompleted.
C1_FlowEventsBracketTheRun ==
    /\ \A i \in DOMAIN events : (events[i].type = "FlowStarted") <=> (i = 1)
    /\ \A i \in DOMAIN events :
          events[i].type = "FlowCompleted" => (i = Len(events) /\ pc = "done" /\ i > 1)
    /\ \A i \in DOMAIN events :
          (1 < i /\ (i < Len(events) \/ pc # "done")) => IsStepEvent(events[i])
    /\ pc = "done" => (Len(events) >= 2 /\ Last(events).type = "FlowCompleted")
    /\ pc # "start" => Len(events) >= 1

\* A finished run whose trigger id the flow has no step for.
C1_Witness ==
    /\ pc = "done"
    /\ trigger_step_id = "Z"
    /\ Len(events) = 2

\* C2: at the end of a run every step has as many StepCompleted events as
\* StepStarted events, and at no moment more completions than starts.
C2_EveryStartHasACompletion ==
    \A s \in StepIds :
       /\ CountEvents("StepCompleted", s) <= CountEvents("StepStarted", s)
       /\ pc = "done" => CountEvents("StepCompleted", s) = CountEvents("StepStarted", s)

\* C3: FlowCompleted.status is "succeeded" iff every StepCompleted event
\* carries a SUCCESS result, and "failed" iff some recorded result is ERROR.
C3_FinalStatus ==
    pc = "done" =>
       /\ Last(events).status \in {"succeeded", "failed"}
       /\ (Last(events).status = "succeeded")
             <=> (\A i \in Completions : events[i].result.status = SUCCESS)
       /\ (Last(events).status = "failed")
             <=> (\E i \in DOMAIN results : results[i].status = ERROR)

\* A run that ends "failed" on an exception that escaped a step body.
C3_Witness ==
    /\ pc = "done"
    /\ Last(events).status = "failed"
    /\ \E i \in Completions : events[i].result.code = "EXECUTION_ERROR"

-----------------------------------------------------------------------------
\* The steps C4 is about: join mode ALL_SUCCESS and incoming edges.
AllSuccessJoins ==
    {s \in DOMAIN TheFlow.steps :
        get_step(s).join_mode = ALL_SUCCESS /\ get_edges_to(s) # {}}

AllDelivered(s) == DOMAIN join_trackers[s] = Sources(s)

\* Not launched before every source has delivered.
C4_NotBeforeAllArrived(s) == Launches(s) > 0 => AllDelivered(s)

\* Launched exactly once when all recorded results are SUCCESS.
C4_OnceWhenAllSucceeded(s) ==
    (pc = "done" /\ AllDelivered(s)
       /\ \A src \in Sources(s) : join_trackers[s][src].status = SUCCESS)
    => Launches(s) = 1

\* Never launched when a recorded result is ERROR.
C4_NeverWhenOneFailed(s) ==
    (\E src \in DOMAIN join_trackers[s] : join_trackers[s][src].status = ERROR)
    => Launches(s) = 0

\* C4 as stated: for a step with join mode ALL_SUCCESS, in any run, the step
\* is not launched before all its sources delivered, is launched exactly
\* once if all recorded results are SUCCESS, never if one is ERROR.
C4_AllSuccessJoin ==
    \A s \in AllSuccessJoins :
       /\ C4_NotBeforeAllArrived(s)
       /\ C4_OnceWhenAllSucceeded(s)
       /\ C4_NeverWhenOneFailed(s)

\* Every source of s has completed at most once so far.
SourcesCompleteOnce(s) ==
    \A src \in Sources(s) : CountEvents("StepCompleted", src) <= 1

\* C4 as amended: the step is never launched before all its sources
\* delivered; in a run where each of its sources completes at most once it
\* is launched exactly once if all recorded results are SUCCESS and never
\* if one of them is ERROR.
C4_AllSuccessJoinSingleDelivery ==
    \A s \in AllSuccessJoins :
       /\ C4_NotBeforeAllArrived(s)
       /\ SourcesCompleteOnce(s) =>
             (C4_OnceWhenAllSucceeded(s) /\ C4_NeverWhenOneFailed(s))

\* S5 with both sources successful: the join was launched, once, after
\* both arrivals.
C4_Witness ==
    /\ pc = "done"
    /\ flow = "diamond_all_success"
    /\ AllDelivered("C")
    /\ Launches("C") = 1

-----------------------------------------------------------------------------
\* A step that records a CONFIG_RESOLUTION_ERROR result, and what it may do.
C5_ConfigErrorStep ==
    (/\ Len(results') = Len(results) + 1
     /\ Last(results').code = "CONFIG_RESOLUTION_ERROR")
    => /\ Last(results').status = ERROR
       /\ Len(events') = Len(events) + 2
       /\ events'[Len(events) + 1] = StepStarted(Last(results').step_id)
       /\ Last(events') = StepCompleted(Last(results').step_id, Last(results'), 0, NoSnapshot)
       /\ tasks' = tasks
       /\ running' = running
       /\ join_trackers' = join_trackers
       /\ pending' = pending \ {Last(results').step_id}

\* C5: when resolve_config raises at launch, an ERROR result with code
\* CONFIG_RESOLUTION_ERROR is recorded, StepCompleted is emitted with
\* duration_ms = 0 right after StepStarted, no task is spawned, and no edge
\* is traversed: no tracker changes and nothing is added to pending.
C5_ConfigResolutionError == [][C5_ConfigErrorStep]_vars

\* A finished linear run where A's config did not resolve: B, the target of
\* A's edge, was never launched.
C5_Witness ==
    /\ pc = "done"
    /\ flow = "linear"
    /\ \E i \in DOMAIN results :
          results[i].code = "CONFIG_RESOLUTION_ERROR" /\ results[i].step_id = "A"
    /\ Launches("B") = 0

-----------------------------------------------------------------------------
\* C6: an exception that escapes a step's run becomes an ERROR result with
\* code EXECUTION_ERROR, a StepCompleted carrying it is emitted for that
\* step, and the run ends with FlowCompleted "failed".
C6_EscapedExceptionIsReported ==
    pc = "done" =>
       \A t \in DOMAIN tasks :
          (tasks[t].finished /\ tasks[t].result.code = "EXECUTION_ERROR")
          => /\ tasks[t].result.status = ERROR
             /\ \E i \in Completions : events[i].result = tasks[t].result
             /\ Last(events).status = "failed"

\* C7: the result of a step body that raised fires "error" if "error" is
\* one of the step's ports and "default" otherwise.
C7_ExecutionErrorPort ==
    \A t \in DOMAIN tasks :
       (tasks[t].finished /\ tasks[t].result.code = "EXECUTION_ERROR")
       => tasks[t].result.fired_ports =
             IF "error" \in Range(get_step(tasks[t].step_id).ports)
             THEN <<"error">> ELSE <<"default">>

\* C8: at the end of a run a NO_WAIT step that is not the start step has
\* been launched as many times as arrivals were routed to it.
C8_NoWaitLaunchPerArrival ==
    pc = "done" =>
       \A s \in DOMAIN TheFlow.steps :
          (get_step(s).join_mode = NO_WAIT /\ s # trigger_step_id)
          => Launches(s) = Cardinality({i \in Completions : RoutesTo(i, s)})

-----------------------------------------------------------------------------
\* A step that records a fire-and-forget result, and the step of the
\* driver that follows its StepCompleted, and what they may do.
C9_FireAndForgetStep ==
    /\ (/\ Len(results') = Len(results) + 1
        /\ Last(results').continue_without_waiting)
       => /\ join_trackers' = join_trackers
          /\ pending' = pending
          /\ Len(events') = Len(events) + 1
          /\ Last(events').type = "StepCompleted"
          /\ Last(events').result = Last(results')
    /\ (/\ pc = "route" /\ pc' # "route"
        /\ Last(results).continue_without_waiting)
       => /\ join_trackers' = join_trackers
          /\ pending' = pending

\* C9: processing a result with continue_without_waiting = true emits its
\* StepCompleted and records it in results (so it counts for the final
\* status), but leaves every join tracker and pending as they were,
\* whatever ports it fired.
C9_FireAndForget == [][C9_FireAndForgetStep]_vars

\* A finished linear run where A returned fire-and-forget with the port of
\* its edge to B: B was never launched.
C9_Witness ==
    /\ pc = "done"
    /\ flow = "linear"
    /\ \E i \in Completions :
          /\ events[i].step_id = "A"
          /\ events[i].result.continue_without_waiting
          /\ events[i].result.fired_ports = <<"default">>
    /\ Launches("B") = 0

-----------------------------------------------------------------------------
\* C10: a step other than the start step is launched only after some
\* completed step fired a port from which the flow has an edge to it; in
\* the conditional flow exactly one of A ("true") and B ("false") is
\* launched once the conditional has returned.
C10_PortRouting ==
    /\ \A i \in DOMAIN events :
          (events[i].type = "StepStarted" /\ events[i].step_id # trigger_step_id)
          => \E j \in 1..(i - 1) :
                /\ events[j].type = "StepCompleted"
                /\ \E p \in DOMAIN events[j].result.fired_ports :
                      \E e \in get_edges_from(events[j].step_id,
                                              events[j].result.fired_ports[p]) :
                         TheFlow.edges[e].target_step_id = events[i].step_id
    /\ (flow = "conditional" /\ pc = "done")
          => \A i \in Completions :
                (events[i].step_id = "C" /\ events[i].result.status = SUCCESS)
                => /\ Launches("A") + Launches("B") = 1
                   /\ Launches("A") = 1 <=> events[i].result.fired_ports = <<"true">>

\* S3: the conditional fired "false", B ran and A never did.
C10_Witness ==
    /\ pc = "done"
    /\ flow = "conditional"
    /\ Launches("B") = 1
    /\ Launches("A") = 0

-----------------------------------------------------------------------------
\* The steps C11 is about: join mode ALL_DONE and incoming edges.
AllDoneJoins ==
    {s \in DOMAIN TheFlow.steps :
        get_step(s).join_mode = ALL_DONE /\ get_edges_to(s) # {}}

\* C11: a step with join mode ALL_DONE and incoming edges is never launched
\* before every source of its incoming edges has delivered; a run does not
\* end with all of them delivered and the step not launched, whatever the
\* statuses of the recorded results; and when a source never delivers, the
\* run ends without the step having been launched.
C11_AllDoneJoin ==
    \A s \in AllDoneJoins :
       /\ Launches(s) > 0 => AllDelivered(s)
       /\ (pc = "done" /\ AllDelivered(s)) => Launches(s) >= 1
       /\ (pc = "done" /\ ~AllDelivered(s)) => Launches(s) = 0

\* The ALL_DONE diamond where a source delivered an ERROR result and the
\* join was launched all the same.
C11_Witness ==
    /\ pc = "done"
    /\ flow = "diamond_all_done"
    /\ AllDelivered("C")
    /\ \E src \in Sources("C") : join_trackers["C"][src].status = ERROR
    /\ Launches("C") >= 1

\* The join behind a conditional: the branch not taken never delivers and
\* the run ends with the join still pending.
C11_UnfiredBranch ==
    /\ pc = "done"
    /\ flow = "branch_all_done"
    /\ DOMAIN join_trackers["D"] # {}
    /\ "D" \in pending
    /\ Launches("D") = 0

-----------------------------------------------------------------------------
\* The steps C12 is about: join mode FIRST_SUCCESS and incoming edges.
FirstSuccessJoins ==
    {s \in DOMAIN TheFlow.steps :
        get_step(s).join_mode = FIRST_SUCCESS /\ get_edges_to(s) # {}}

\* The tracker of s holds an arrival with status SUCCESS.
HasSuccessArrival(s) ==
    \E src \in DOMAIN join_trackers[s] : join_trackers[s][src].status = SUCCESS

\* What a step of the run may do to a FIRST_SUCCESS join s.
C12_FirstSuccessStep ==
    \A s \in FirstSuccessJoins :
       \* launched only with a SUCCESS arrival in its tracker
       /\ Launches(s)' > Launches(s) => HasSuccessArrival(s)
       \* an arrival puts it in pending
       /\ join_trackers'[s] # join_trackers[s] => s \in pending'
       \* the next selection takes it as soon as a SUCCESS arrival is
       \* recorded, whether or not the other sources have arrived
       /\ (pc = "loop" /\ pc' = "launch" /\ s \in pending /\ HasSuccessArrival(s))
             => s \in Range(steps_to_launch')
       \* and what was selected is launched in that round
       /\ (s \in Range(steps_to_launch) /\ s \notin Range(steps_to_launch'))
             => Launches(s)' = Launches(s) + 1

\* C12: a step with join mode FIRST_SUCCESS and incoming edges is never
\* launched while every recorded arrival in its tracker is an ERROR (or
\* none is recorded), and it is launched in the first launch round after a
\* SUCCESS arrival was recorded, without waiting for the other sources.
C12_FirstSuccessJoin == [][C12_FirstSuccessStep]_vars

\* The FIRST_SUCCESS diamond: the join was launched when only one of its
\* two sources had delivered.
C12_Witness ==
    /\ flow = "diamond_first_success"
    /\ Launches("C") = 1
    /\ Cardinality(DOMAIN join_trackers["C"]) = 1
    /\ HasSuccessArrival("C")

-----------------------------------------------------------------------------
\* The driver finds nothing to launch and nothing running.
C13_NothingToDo ==
    \/ pc = "loop" /\ pending = {} /\ DOMAIN running = {}
    \/ pc = "launch" /\ steps_to_launch = << >> /\ DOMAIN running = {}

\* C13: on an acyclic flow whose step bodies terminate every run
\* eventually emits FlowCompleted, and the driver leaves the loop in its
\* next step whenever nothing is running and nothing is left to launch,
\* even with steps still pending.
C13_Quiescence ==
    /\ <>(pc = "done" /\ Last(events).type = "FlowCompleted")
    /\ [][(C13_NothingToDo /\ pc' # pc) => pc' = "final"]_vars

\* S5: the run is over and the ALL_SUCCESS join is still pending, never
\* launched.
C13_Witness ==
    /\ pc = "done"
    /\ flow = "diamond_all_success"
    /\ "C" \in pending
    /\ Launches("C") = 0
    /\ Launches("A") = 1 /\ Launches("B") = 1

-----------------------------------------------------------------------------
\* The flows whose steps are totally ordered by their edges
ChainFlows == {"chain", "chain_seeded"}

\* The steps of a chain in the order of its edges
ChainOrder(f) ==
    <<"T">> \o [i \in DOMAIN Flows[f].edges |-> Flows[f].edges[i].target_step_id]

\* The one behaviour of step k of a chain
ChainOutcome(f, k) == CHOOSE o \in Flows[f].steps[ChainOrder(f)[k]].outcomes : TRUE

\* What the first k steps of a chain do when they are executed one after
\* the other, each on the state the previous one left: the result of step
\* k and the state after it.
RECURSIVE ChainAfter(_, _)
ChainAfter(f, k) ==
    IF k = 0 THEN [result |-> NoResult, state |-> initial_state(f)]
    ELSE LET before == ChainAfter(f, k - 1).state
             step_id == ChainOrder(f)[k]
         IN execute_step(step_id, ChainOutcome(f, k), before,
                         resolve_config(Flows[f].steps[step_id].config, before))

\* The events of that sequential execution, without run ids and durations
ChainEvents(f) ==
    LET n == Len(ChainOrder(f))
        step_events == [i \in 1..(2 * n) |->
                          IF i % 2 = 1
                          THEN <<"StepStarted", ChainOrder(f)[(i + 1) \div 2]>>
                          ELSE <<"StepCompleted", ChainOrder(f)[i \div 2],
                                 ChainAfter(f, i \div 2).result>>]
        failed == \E k \in 1..n : ChainAfter(f, k).result.status = ERROR
    IN <<(<<"FlowStarted">>)>> \o step_events
          \o <<(<<"FlowCompleted", IF failed THEN "failed" ELSE "succeeded">>)>>

\* An event without its run id and duration
EventView(e) ==
    CASE e.type = "StepStarted" -> <<e.type, e.step_id>>
      [] e.type = "StepCompleted" -> <<e.type, e.step_id, e.result>>
      [] e.type = "FlowCompleted" -> <<e.type, e.status>>
      [] OTHER -> <<e.type>>

\* C14: on a chain every run yields the events of the sequential execution
\* of its steps (at any moment a prefix of them, at the end all of them)
\* and ends in the state that execution ends in, so two runs from the same
\* initial state cannot differ; S1 ends with x = "a", y = "a!", status
\* "succeeded" and 8 events.
C14_ChainDeterminism ==
    flow \in ChainFlows =>
       /\ Len(events) <= Len(ChainEvents(flow))
       /\ \A i \in DOMAIN events : EventView(events[i]) = ChainEvents(flow)[i]
       /\ pc = "done" =>
             /\ Len(events) = Len(ChainEvents(flow))
             /\ state = ChainAfter(flow, Len(ChainOrder(flow))).state
       /\ (pc = "done" /\ flow = "chain") =>
             /\ state.values = (<<"x">> :> VStr(<<"a">>)) @@ (<<"y">> :> VStr(<<"a", "!">>))
             /\ Last(events).status = "succeeded"
             /\ Len(events) = 8

\* The end of a run of the seeded chain: both steps read what was in the
\* state when they were launched.
C14_Witness ==
    /\ pc = "done"
    /\ flow = "chain_seeded"
    /\ state.values[<<"y">>] = VStr(<<"b", "!">>)
    /\ state.values[<<"x">>] = VStr(<<"b", "!", "1">>)
    /\ Len(events) = 8

-----------------------------------------------------------------------------
\* What a step of the caller may do, for C17.
C17_SetThenGetStep ==
    \* set changes no other key and no slot
    /\ call'.op = "set" =>
          /\ state'.slots = state.slots
          /\ DOMAIN state'.values \ {call'.name} = DOMAIN state.values \ {call'.name}
          /\ \A k \in DOMAIN state.values \ {call'.name} :
                state'.values[k] = state.values[k]
    \* get after a set of the same key that returned
    /\ (call.op = "set" /\ ~call.raised /\ call'.op = "get" /\ call'.name = call.name)
          => call'.ret = IF call.name \in DOMAIN state.slots
                         THEN cast(state.slots[call.name], call.value).value
                         ELSE call.value

\* C17: StateContainer.set followed by get on the same key returns
\* slot.cast(value) when a slot is defined for the key and the value as it
\* was given when none is; set changes no other key and no slot.
C17_SetThenGet == [][C17_SetThenGetStep]_vars

\* get returned 1.0 for a key whose slot is a NUMBER: the value written was
\* cast.
C17_Witness ==
    /\ call.op = "get"
    /\ call.name \in DOMAIN state.slots
    /\ state.slots[call.name] = NUMBER
    /\ call.ret = VFloat(1)

-----------------------------------------------------------------------------
\* Reading a value along path segments: a dict by key, a list by integer
\* index; nothing is found under a missing key, a bad index, a scalar or
\* None.
RECURSIVE Read(_, _)
Read(value, parts) ==
    IF parts = << >> THEN [found |-> TRUE, value |-> value]
    ELSE CASE value.t = "dict" /\ (\E i \in DOMAIN value.pairs :
                                       value.pairs[i][1] = Head(parts)) ->
                 Read(DictGet(value.pairs, Head(parts)), Tail(parts))
           [] value.t = "list" /\ ~int(Head(parts)).raised
                 /\ int(Head(parts)).value.n \in 0..(Len(value.items) - 1) ->
                 Read(value.items[int(Head(parts)).value.n + 1], Tail(parts))
           [] OTHER -> [found |-> FALSE, value |-> VNone]

\* Reading the values map of a container along a dotted path
ReadPath(st, path) ==
    LET parts == split(path)
    IN IF Head(parts) \in DOMAIN st.values
       THEN Read(st.values[Head(parts)], Tail(parts))
       ELSE [found |-> FALSE, value |-> VNone]

\* What C18 says get_nested(path, default) returns
C18_Expected(st, path, default) ==
    LET read == ReadPath(st, path)
    IN IF read.found /\ read.value.t # "none" THEN read.value ELSE default

\* C18: get_nested(p, d) is the value read from the values map along the
\* dot-separated segments of p, and d when a key is absent, an index is
\* not a number or out of range, a segment is applied to a scalar, or an
\* intermediate or the final value is None; it does not modify the state.
C18_GetNested ==
    [][call'.op = "get_nested" =>
          /\ call'.ret = C18_Expected(state, call'.path, call'.default)
          /\ state' = state]_vars

-----------------------------------------------------------------------------
\* C19: resolve_template returns its input unchanged for every string
\* that contains no "{{", whatever the state, and applying it again to
\* that result changes nothing.
C19_NoRefUnchanged ==
    (call.op = "resolve_template" /\ ~HasRef(call.template)) =>
       /\ call.ret = call.template
       /\ resolve_template(call.ret, state) = call.ret

\* A template full of braces, none of them doubled at the opening, resolved
\* against a state that holds x.
C19_Witness ==
    /\ call.op = "resolve_template"
    /\ call.template = <<"{", "x", "}", "}", "{", ".">>
    /\ <<"x">> \in DOMAIN state.values
    /\ call.ret = call.template

-----------------------------------------------------------------------------
\* C15: Flow.add_edge appends the edge exactly when the source step is in
\* the flow, source_port is in the source step's port list at the moment of
\* the call and the target step is in the flow; otherwise it raises
\* ValueError and the edge list is as it was.  No other operation changes
\* the edge list, so every edge references steps present in the flow and a
\* port its source had when the edge was added.
C15_Accepts(source, target, source_port) ==
    /\ \E i \in DOMAIN steps : steps[i].id = source
    /\ \E i \in DOMAIN steps : steps[i].id = target
    /\ \E i \in DOMAIN steps :
          /\ steps[i].id = source
          /\ \E k \in DOMAIN ports(steps[i]) : ports(steps[i])[k] = source_port

C15_AddEdgeStep ==
    /\ call'.op = "add_edge" =>
          IF C15_Accepts(call'.source, call'.target, call'.source_port)
          THEN /\ ~call'.raised
               /\ edges' = Append(edges, Edge(call'.source, call'.source_port,
                                              call'.target))
          ELSE /\ call'.raised
               /\ edges' = edges
    /\ call'.op # "add_edge" => edges' = edges
    /\ \A i \in DOMAIN edges' :
          /\ \E k \in DOMAIN steps' : steps'[k].id = edges'[i].source_step_id
          /\ \E k \in DOMAIN steps' : steps'[k].id = edges'[i].target_step_id

C15_AddEdge == [][C15_AddEdgeStep]_vars

\* An edge from the switch's case port was accepted, and a later call that
\* names two steps of the flow was refused for its port.
C15_Witness ==
    /\ \E i \in DOMAIN edges :
          edges[i].source_step_id = "W" /\ edges[i].source_port = "c1"
    /\ call.op = "add_edge"
    /\ call.raised
    /\ flow_has_step(steps, call.source)
    /\ flow_has_step(steps, call.target)

-----------------------------------------------------------------------------
\* The transitive predecessors of a step: the sources of the edges into it
\* and into its predecessors
RECURSIVE PredecessorsFrom(_)
PredecessorsFrom(found) ==
    LET more == found \cup {edges[i].source_step_id :
                               i \in {k \in DOMAIN edges : edges[k].target_step_id \in found}}
    IN IF more = found THEN found ELSE PredecessorsFrom(more)

Predecessors(step_id) ==
    PredecessorsFrom({edges[i].source_step_id :
                        i \in {k \in DOMAIN edges : edges[k].target_step_id = step_id}})

\* The output closure of the upstream steps of steps[i]: the declared
\* outputs and the set-state keys of all transitive predecessors, plus the
\* own outputs of a trigger.  keys is the set of set-state keys that count.
OutputClosure(i, keys) ==
    LET before == {k \in DOMAIN steps : steps[k].id \in Predecessors(steps[i].id)}
        declared(k) == Elements(outputs(steps[k]))
        set_key(k) == IF steps[k].type = "set_state"
                      THEN {steps[k].config.key} \cap keys ELSE {}
    IN UNION {declared(k) \cup set_key(k) : k \in before}
          \cup (IF steps[i].is_trigger THEN declared(i) ELSE {})

\* Every reference of every config has its root segment in the closure
RefsClosed(keys) ==
    \A i \in DOMAIN steps :
        LET refs == extract_refs(steps[i])
        IN \A r \in DOMAIN refs : split(refs[r][2])[1] \in OutputClosure(i, keys)

\* The keys a set-state step may be given
AnyKey == {config.key : config \in SetStateConfigs}

\* The last call was validate_all and it reported no finding of level error
NoErrorFound == \A i \in DOMAIN call.errors : call.errors[i].level # "error"

\* C16 as stated: the validator reports no finding of level "error" on a
\* flow whose edges were all created through add_edge and whose configs use
\* only references whose root segment lies in the output closure of the
\* step's upstream steps.
C16_NoErrors ==
    (call.op = "validate_all" /\ RefsClosed(AnyKey)) => NoErrorFound

\* Every edge's source_port is still a port of its source step
PortsKept ==
    \A i \in DOMAIN edges :
        \E k \in DOMAIN steps :
            /\ steps[k].id = edges[i].source_step_id
            /\ edges[i].source_port \in Elements(ports(steps[k]))

\* C16 amended: the validator reports no finding of level "error" on a flow
\* whose edges were all created through add_edge, whose source steps still
\* have the port of each of their edges, and whose configs use only
\* references whose root segment lies in the output closure of the step's
\* upstream steps, a set-state key counting only when it is not empty.
C16_NoErrorsPortsKept ==
    (call.op = "validate_all" /\ PortsKept /\ RefsClosed(AnyKey \ {<< >>}))
        => NoErrorFound

\* A validated flow of two edges whose switch has a case: its references to
\* a set-state key and to a trigger output are both closed.
C16_Witness ==
    /\ call.op = "validate_all"
    /\ PortsKept
    /\ RefsClosed(AnyKey \ {<< >>})
    /\ Len(edges) = MaxEdges
    /\ \E i \in DOMAIN steps : steps[i].type = "switch" /\ steps[i].config.cases # << >>

-----------------------------------------------------------------------------
\* C20: StepSwitch.ports is the list of the configured case names in
\* configuration order followed by "else" (just "else" when there are no
\* cases), computed from the config as it is when it is read; StepSwitch.run
\* fires exactly one port: the name of the first case, in order, whose
\* value equals the switch value, or "else" when none matches.
C20_SwitchPorts ==
    LET config == steps[1].config
        matching == {i \in DOMAIN config.cases : config.cases[i].value = config.value}
    IN /\ call.op = "ports" =>
            /\ Len(call.ret) = Len(config.cases) + 1
            /\ \A i \in DOMAIN config.cases : call.ret[i] = config.cases[i].name
            /\ call.ret[Len(call.ret)] = "else"
       /\ call.op = "run" =>
            /\ Len(call.ret.fired_ports) = 1
            /\ \A i \in matching :
                  (\A j \in matching : i <= j)
                      => call.ret.fired_ports[1] = config.cases[i].name
            /\ matching = {} => call.ret.fired_ports[1] = "else"

\* A run of a switch whose two cases both match and have different names
C20_Witness ==
    LET config == steps[1].config
    IN /\ call.op = "run"
       /\ Len(config.cases) = 2
       /\ config.cases[1].value = config.value
       /\ config.cases[2].value = config.value
       /\ config.cases[1].name # config.cases[2].name
       /\ call.ret.fired_ports = <<config.cases[1].name>>

-----------------------------------------------------------------------------
\* The step a step of the run launches, when it launches one
LaunchesNow == Len(events') > Len(events) /\ events'[Len(events) + 1].type = "StepStarted"

LaunchedNow == events'[Len(events) + 1].step_id

\* C21: whenever a step other than the initial trigger is launched, an
\* arrival from one of its sources is already in its join tracker, recorded
\* from a completion that routed to it; and launch selection happens only
\* when the whole completed batch has been processed.
C21_LaunchStep ==
    /\ LaunchesNow =>
          \/ LaunchedNow = trigger_step_id /\ Launches(LaunchedNow) = 0
          \/ \E src \in DOMAIN join_trackers[LaunchedNow] :
                /\ src \in Sources(LaunchedNow)
                /\ \E i \in Completions :
                      /\ events[i].step_id = src
                      /\ RoutesTo(i, LaunchedNow)
                      /\ events[i].result = join_trackers[LaunchedNow][src]
    /\ (pc = "loop" /\ pc' = "launch") => done = {}

C21_ArrivalBeforeLaunch == [][C21_LaunchStep]_vars

\* A step that is not the start step has been launched
C21_Witness ==
    \E i \in DOMAIN events :
        /\ events[i].type = "StepStarted"
        /\ events[i].step_id # trigger_step_id
        /\ DOMAIN join_trackers[events[i].step_id] # {}

-----------------------------------------------------------------------------
\* The first StepStarted of a step after event i, or 0
NextStart(i, step_id) ==
    LET later == {j \in DOMAIN events :
                     /\ j > i
                     /\ events[j].type = "StepStarted"
                     /\ events[j].step_id = step_id}
    IN IF later = {} THEN 0 ELSE CHOOSE j \in later : \A k \in later : j <= k

\* The launch round that follows the batch of completion i is over: a step
\* was started after i and a task's completion, or the end of the run,
\* follows that start.
RoundOverAfter(i) ==
    \E j \in DOMAIN events :
        /\ j > i
        /\ events[j].type = "StepStarted"
        /\ \E k \in DOMAIN events :
              /\ k > j
              /\ \/ events[k].type = "FlowCompleted"
                 \/ /\ events[k].type = "StepCompleted"
                    /\ events[k].result.code # "CONFIG_RESOLUTION_ERROR"

\* The steps that have no join to wait for, to which completion i routes
FanOutTargets(i) ==
    {s \in DOMAIN TheFlow.steps : RoutesTo(i, s) /\ get_step(s).join_mode = NO_WAIT}

\* Started at event j, the step's config failed to resolve
ConfigFailedAt(j) ==
    /\ j + 1 \in DOMAIN events
    /\ events[j + 1].type = "StepCompleted"
    /\ events[j + 1].result.code = "CONFIG_RESOLUTION_ERROR"

\* What C22 says of two targets s1 and s2 of completion i
FanOut(i, s1, s2) ==
    LET j1 == NextStart(i, s1)
        j2 == NextStart(i, s2)
        last == IF j1 > j2 THEN j1 ELSE j2
    IN /\ RoundOverAfter(i) => (j1 # 0 /\ j2 # 0)
       /\ (j1 # 0 /\ j2 # 0) =>
             /\ \A k \in (i + 1)..last :
                   events[k].type = "StepCompleted" => events[k].step_id \notin {s1, s2}
             /\ (\A k \in DOMAIN events :
                    (k > last /\ events[k].type = "StepCompleted")
                       => events[k].step_id \notin {s1, s2})
                   => {s1, s2} \subseteq DOMAIN running

-----------------------------------------------------------------------------
\* The tasks whose body runs in a step of the run
FinishNow == {t \in DOMAIN tasks : ~tasks[t].finished /\ tasks'[t].finished}

\* Task t is the task of a set-state step
WritesState(t) == \E o \in get_step(tasks[t].step_id).outcomes : o.kind = "set_state"

\* The values the steps of the race write to x
RaceValues == {VStr(step_config(s).value) : s \in {"A", "B"}}

\* C23: two steps in flight that write the same key race with
\* last-writer-wins semantics: each write replaces the value of the key by
\* the writer's value and touches nothing else, nothing but a step body
\* writes, and the key never holds a value other than one of the two
\* written.
C23_WriteStep ==
    /\ state' # state => FinishNow # {}
    /\ \A t \in FinishNow :
          WritesState(t) =>
             /\ DOMAIN state'.values = DOMAIN state.values \cup {tasks[t].config.key}
             /\ state'.values[tasks[t].config.key] = VStr(tasks[t].config.value)
             /\ \A k \in DOMAIN state.values \ {tasks[t].config.key} :
                   state'.values[k] = state.values[k]
    /\ flow = "race" =>
          \A k \in DOMAIN state'.values : k = <<"x">> /\ state'.values[k] \in RaceValues

C23_LastWriterWins == [][C23_WriteStep]_vars

\* Both writers were in flight together, B wrote first and A last: the run
\* ends with A's value.
C23_Witness ==
    /\ flow = "race"
    /\ pc = "done"
    /\ state.values[<<"x">>] = VStr(<<"a">>)
    /\ \E i, j \in DOMAIN events :
          /\ i < j
          /\ events[i].type = "StepCompleted" /\ events[i].step_id = "A"
          /\ events[j].type = "StepCompleted" /\ events[j].step_id = "B"

-----------------------------------------------------------------------------
\* C24: a step's config is resolved against the state as it is when the
\* step is launched: the snapshot given to the task is the step's config
\* resolved on the state of that moment, it never changes afterwards, and
\* the body writes the value of the snapshot whatever was written to the
\* state in between.  A step launched after another's completion sees its
\* write.
C24_ResolveStep ==
    /\ Len(tasks') = Len(tasks) + 1 =>
          LET config == step_config(tasks'[Len(tasks')].step_id)
          IN /\ tasks'[Len(tasks')].config.key = config.key
             /\ tasks'[Len(tasks')].config.value =
                   (IF HasRef(config.value) THEN resolve_template(config.value, state)
                    ELSE config.value)
    /\ \A t \in DOMAIN tasks : tasks'[t].config = tasks[t].config
    /\ \A t \in FinishNow :
          WritesState(t) =>
             state'.values[tasks[t].config.key] = VStr(tasks[t].config.value)
    /\ flow = "late_binding" =>
          /\ <<"y">> \in DOMAIN state'.values =>
                state'.values[<<"y">>] \in {VStr(<< >>), VStr(<<"a">>)}
          /\ <<"z">> \in DOMAIN state'.values =>
                state'.values[<<"z">>] \in {VStr(<<"a">>), VStr(<<"a", "a">>)}

C24_ResolvedAtLaunch == [][C24_ResolveStep]_vars

\* B was launched before A wrote x and ran after it: it wrote the empty
\* text its snapshot held, while C, launched after A completed, wrote "a".
C24_Witness ==
    /\ flow = "late_binding"
    /\ pc = "done"
    /\ state.values[<<"x">>] = VStr(<<"a">>)
    /\ state.values[<<"y">>] = VStr(<< >>)
    /\ state.values[<<"z">>] = VStr(<<"a">>)

-----------------------------------------------------------------------------
\* C25: the config of every step object of the flow is, throughout a run
\* and after it, what it was before the run; substituted values are found
\* in the snapshot given to the task only.
C25_ConfigsUnchanged == steps = flow_steps(flow)

\* A run has ended in which a task was given a snapshot that differs from
\* the config of its step
C25_Witness ==
    /\ pc = "done"
    /\ \E t \in DOMAIN tasks : tasks[t].config # step_config(tasks[t].step_id)

-----------------------------------------------------------------------------
\* The ids of the steps of the flow
FlowIds == {steps[k].id : k \in DOMAIN steps}

\* The live ports of the step with an id
LivePorts(step_id) ==
    UNION {Elements(ports(steps[k])) : k \in {j \in DOMAIN steps : steps[j].id = step_id}}

\* Edge i lacks its source step, its target step, or its port on the source
SourceMissing(i) == edges[i].source_step_id \notin FlowIds

TargetMissing(i) == edges[i].target_step_id \notin FlowIds

PortMissing(i) == ~SourceMissing(i) /\ edges[i].source_port \notin LivePorts(edges[i].source_step_id)

BadEdges == {i \in DOMAIN edges : SourceMissing(i) \/ TargetMissing(i) \/ PortMissing(i)}

\* The k-th smallest element of a set of numbers
RECURSIVE Nth(_, _)
Nth(S, k) ==
    LET least == CHOOSE i \in S : \A j \in S : i <= j
    IN IF k = 1 THEN least ELSE Nth(S \ {least}, k - 1)

\* C26: validate_edges emits an error finding for an edge if and only if
\* its source step is missing from the flow, its target step is missing, or
\* its source_port is not in the source step's port list as it is when the
\* flow is validated; it emits at most one finding per edge, in the order
\* of the edges.
C26_EdgeFindings ==
    call.op = "validate_edges" =>
       /\ Len(call.errors) = Cardinality(BadEdges)
       /\ \A k \in DOMAIN call.errors :
             LET i == Nth(BadEdges, k)
                 finding == call.errors[k]
             IN /\ finding.level = "error"
                /\ SourceMissing(i) =>
                      /\ finding.field = "edge"
                      /\ finding.edge = i
                      /\ finding.step_id = edges[i].source_step_id
                /\ (~SourceMissing(i) /\ TargetMissing(i)) =>
                      /\ finding.field = "edge"
                      /\ finding.edge = i
                      /\ finding.step_id = edges[i].target_step_id
                /\ (~SourceMissing(i) /\ ~TargetMissing(i)) =>
                      /\ finding.field = "source_port"
                      /\ finding.port = edges[i].source_port
                      /\ finding.step_id = edges[i].source_step_id

\* A flow validated after the case of its switch was removed: the edge that
\* leaves the switch by the case's port is reported, the sound edge before
\* it is not.
C26_Witness ==
    /\ call.op = "validate_edges"
    /\ Len(edges) = 2
    /\ edges[1] = Edge("T", "default", "W")
    /\ edges[2] = Edge("W", "c1", "A")
    /\ \E k \in DOMAIN steps : steps[k].id = "W" /\ steps[k].config.cases = << >>
    /\ call.errors = <<PortError("W", "c1")>>

-----------------------------------------------------------------------------
\* The ids from which a step is reachable along one or more edges, the
\* paths running through the ids of the set through only
RECURSIVE ReachedFrom(_, _)
ReachedFrom(found, through) ==
    LET more == found \cup {edges[i].source_step_id :
                               i \in {k \in DOMAIN edges :
                                         edges[k].target_step_id \in found \cap through}}
    IN IF more = found THEN found ELSE ReachedFrom(more, through)

PredecessorsThrough(step_id, through) ==
    ReachedFrom({edges[i].source_step_id :
                    i \in {k \in DOMAIN edges : edges[k].target_step_id = step_id}},
                through)

\* Every id an edge names
EdgeIds ==
    {edges[i].source_step_id : i \in DOMAIN edges}
       \cup {edges[i].target_step_id : i \in DOMAIN edges}

\* The available keys of steps[i]: the declared outputs and the set-state
\* keys (those of the set keys) of its transitive predecessors, plus its
\* own outputs if it is a trigger
AvailableKeys(i, keys, through) ==
    LET before == {k \in DOMAIN steps :
                      steps[k].id \in PredecessorsThrough(steps[i].id, through)}
        set_key(k) == IF steps[k].type = "set_state"
                      THEN {steps[k].config.key} \cap keys ELSE {}
    IN UNION {Elements(outputs(steps[k])) \cup set_key(k) : k \in before}
          \cup (IF steps[i].is_trigger THEN Elements(outputs(steps[i])) ELSE {})

\* One error finding for each reference occurrence of steps[i] whose root
\* segment is not available, for the steps from i on
RECURSIVE MissingRefs(_, _, _)
MissingRefs(i, keys, through) ==
    IF i > Len(steps) THEN << >>
    ELSE LET refs == extract_refs(steps[i])
             unavailable(pair) == split(pair[2])[1] \notin AvailableKeys(i, keys, through)
             failed == SelectSeq(refs, unavailable)
         IN [r \in DOMAIN failed |-> RefError(steps[i].id, failed[r][1], failed[r][2])]
               \o MissingRefs(i + 1, keys, through)

\* C27 as stated: validate_flow emits one error finding for each reference
\* occurrence in a step's config whose root segment is not in the step's
\* available keys, and none otherwise; the available keys are the declared
\* outputs and set-state keys of all transitive predecessors (ports
\* ignored), plus the step's own outputs if it is a trigger.
C27_RefFindings ==
    call.op = "validate_flow" => call.errors = MissingRefs(1, AnyKey, EdgeIds)

\* C27 amended: the same, where a set-state key counts when it is not
\* empty and the predecessors are those reached along paths whose steps are
\* all in the flow.
C27_RefFindingsPresentSteps ==
    call.op = "validate_flow" =>
       call.errors = MissingRefs(1, AnyKey \ {<< >>}, FlowIds)

\* A validated flow T -> A -> W whose switch reads a set-state key and a
\* trigger output through both edges, while the set-state step reads a key
\* it has no predecessor for: that reference alone is reported.
C27_Witness ==
    /\ call.op = "validate_flow"
    /\ edges = <<Edge("T", "default", "A"), Edge("A", "default", "W")>>
    /\ \E k \in DOMAIN steps :
          /\ steps[k].id = "W"
          /\ steps[k].config.cases # << >>
    /\ call.errors = <<RefError("A", "value", <<"x">>)>>


\* The ids of the steps a steps_before call returned, in order
ReturnedIds == [k \in DOMAIN call.ret |-> call.ret[k].id]

\* The steps of the flow from which step_id is reachable along one or more
\* edges whose intermediate ids are in through
StepsReaching(step_id, through) ==
    {steps[k] : k \in {j \in DOMAIN steps :
                          steps[j].id \in PredecessorsThrough(step_id, through)}}

\* What steps_before returned is the set of steps reaching the step
\* through the given ids, each exactly once, and the step itself is not
\* among them when no cycle of edges passes through it
ReturnsReaching(through) ==
    /\ Range(call.ret) = StepsReaching(call.step_id, through)
    /\ \A k, l \in DOMAIN call.ret : call.ret[k] = call.ret[l] => k = l
    /\ call.step_id \notin PredecessorsThrough(call.step_id, EdgeIds)
          => call.step_id \notin Range(ReturnedIds)

\* C28 as stated: Flow.steps_before(s) returns exactly the steps from which
\* s is reachable along one or more edges (ports ignored), each exactly
\* once, and not s itself on an acyclic flow; the traversal terminates on
\* every finite graph, cycles and edges with a source outside the flow
\* included.
C28_StepsBefore ==
    call.op = "steps_before" => ReturnsReaching(EdgeIds)

\* C28 amended: the same, where s is reachable from a returned step along
\* edges whose intermediate endpoints are all steps of the flow.
C28_StepsBeforePresentSteps ==
    call.op = "steps_before" => ReturnsReaching(FlowIds)

\* steps_before on a step of a two-step cycle A -> W -> A: the traversal
\* ends and returns the other step and then the step itself, once each.
C28_Witness ==
    /\ call.op = "steps_before"
    /\ call.step_id = "A"
    /\ edges = <<Edge("A", "default", "W"), Edge("W", "default", "A")>>
    /\ ReturnedIds = <<"W", "A">>


\* The values of the references of a template that are strings holding a
\* reference themselves, one per reference occurrence
RefTexts(template) ==
    LET refs == finditer(template, 1)
        value(i) == get_nested(state, refs[i], VNone)
        holds_ref(i) == /\ value(i).t = "str"
                        /\ \E k \in 1..Len(value(i).s) : RefEnd(value(i).s, k) # 0
    IN [i \in {k \in DOMAIN refs : holds_ref(k)} |-> value(i).s]

\* The number of places of a text at which a given text occurs
Occurrences(text, inside) ==
    Cardinality({k \in 1..(Len(inside) - Len(text) + 1) :
                    SubSeq(inside, k, k + Len(text) - 1) = text})

\* C29: the template resolver makes a single pass: when a referenced state
\* value holds text of the form {{k}} itself, that text is in the output
\* literally, once for each reference to it, and is not resolved again.
C29_SinglePass ==
    call.op = "resolve_template" =>
       LET texts == RefTexts(call.template)
       IN \A i \in DOMAIN texts :
             Occurrences(texts[i], call.ret)
                >= Cardinality({k \in DOMAIN texts : texts[k] = texts[i]})

\* The template "{{x}}" resolved where x holds "{{y}}" and y holds "a":
\* the output is the text "{{y}}", not "a".
C29_Witness ==
    /\ call.op = "resolve_template"
    /\ call.template = <<"{", "{", "x", "}", "}">>
    /\ get(state, <<"x">>, VNone) = VStr(<<"{", "{", "y", "}", "}">>)
    /\ get(state, <<"y">>, VNone) = VStr(<<"a">>)
    /\ call.ret = <<"{", "{", "y", "}", "}">>


\* C30: every result with status SUCCESS that a built-in step produces
\* (triggers, delay, set-state, conditional, switch, request, reply,
\* conversation steps) has fired ports that are all in the port list the
\* step has at that instant.
C30_FiredPortsInPorts ==
    call.op = "run" /\ ~call.raised /\ call.ret.status = SUCCESS
       => \A i \in DOMAIN call.ret.fired_ports :
             In(call.ret.fired_ports[i], ports(steps[1]))

\* A run of a switch with the cases c1 and c2 whose second case is the
\* first that matches: the port c2 fires, and it is in the port list.
C30_Witness ==
    /\ call.op = "run"
    /\ steps[1].type = "switch"
    /\ call.ret.status = SUCCESS
    /\ call.ret.fired_ports = <<"c2">>
    /\ ports(steps[1]) = <<"c1", "c2", "else">>


-----------------------------------------------------------------------------
\* results[i] has been delivered to the step s: the routing loops have run
\* for it and one of its fired ports has an edge to s
Delivered(i, s) ==
    /\ i \in DOMAIN results
    /\ i < Len(results) \/ pc # "route"
    /\ ~results[i].continue_without_waiting
    /\ results[i].code # "CONFIG_RESOLUTION_ERROR"
    /\ s \in {TheFlow.edges[e].target_step_id : e \in RoutedEdges(results[i])}

\* The number of edges a result was routed along into the step s
EdgesInto(i, s) ==
    Cardinality({e \in RoutedEdges(results[i]) : TheFlow.edges[e].target_step_id = s})

\* C31: join trackers are keyed by source step, not by edge: a tracker
\* holds an entry for exactly the source steps that have delivered to its
\* step, and the entry is the most recent result that source delivered;
\* a completion that reaches a target along several edges (parallel edges
\* or several fired ports) leaves one entry, and the target is launched at
\* most once for each completion delivered to it.
C31_TrackerBySource ==
    \A s \in StepIds :
       /\ DOMAIN join_trackers[s] = {results[i].step_id : i \in {k \in DOMAIN results : Delivered(k, s)}}
       /\ \A i \in DOMAIN results :
             (/\ Delivered(i, s)
              /\ \A j \in (i + 1)..Len(results) :
                    Delivered(j, s) => results[j].step_id # results[i].step_id)
             => join_trackers[s][results[i].step_id] = results[i]
       /\ Launches(s) <= Cardinality({i \in DOMAIN results : Delivered(i, s)})
                            + (IF s = trigger_step_id THEN 1 ELSE 0)

\* A finished run of the flow with parallel edges in which C fired both its
\* ports, each wired to D: D's tracker has the one entry of C and D was
\* launched once; C, reached from T along two edges, was launched once.
C31_Witness ==
    /\ pc = "done"
    /\ flow = "parallel"
    /\ \E i \in DOMAIN results : results[i].step_id = "C" /\ EdgesInto(i, "D") = 2
    /\ \E i \in DOMAIN results : results[i].step_id = "T" /\ EdgesInto(i, "C") = 2
    /\ DOMAIN join_trackers["D"] = {"C"}
    /\ Launches("D") = 1
    /\ Launches("C") = 1


-----------------------------------------------------------------------------
\* The StepCompleted events of the tasks of a step (the event of a failed
\* config resolution has no snapshot and no task)
TaskCompletions(s) ==
    {i \in Completions : events[i].step_id = s /\ events[i].state_snapshot.kind # "none"}

\* The tasks of a step that have run to their end
FinishedTasks(s) == {t \in DOMAIN tasks : tasks[t].step_id = s /\ tasks[t].finished}

\* A step of the run that emits the StepCompleted of a task: the result is
\* the one appended to results in the same iteration, no edge has been
\* routed yet, and the snapshot holds the state values of that moment
C32_EmitStep ==
    (/\ Len(events') = Len(events) + 1
     /\ Last(events').type = "StepCompleted"
     /\ Last(events').state_snapshot.kind # "none")
    => /\ results' = Append(results, Last(events').result)
       /\ join_trackers' = join_trackers
       /\ pending' = pending
       /\ snapshot_items(Last(events').state_snapshot, state') = state.values

\* A step of the run that routes: it is the step of the driver that follows
\* the StepCompleted of the last result, and it routes that result
C32_RouteStep ==
    (join_trackers' # join_trackers \/ ~(pending' \subseteq pending))
    => /\ pc = "route"
       /\ events' = events
       /\ Last(events).type = "StepCompleted"
       /\ Last(events).result = Last(results)

\* No step of the run, a write to the state included, changes what a
\* snapshot already emitted shows
C32_SnapshotKept ==
    \A i \in Completions :
       snapshot_items(events'[i].state_snapshot, state')
          = snapshot_items(events[i].state_snapshot, state)

\* For every task the completion loop processes, StepCompleted is emitted
\* once, after the result is appended and before its edges are routed, with
\* a snapshot that is a copy of the state values of that moment.
C32_ProcessedTasks ==
    [][C32_EmitStep /\ C32_RouteStep /\ C32_SnapshotKept]_vars

\* C32: for each completed task StepCompleted is emitted exactly once,
\* after the result is appended to results and before any outgoing edge of
\* the step is routed; its state_snapshot equals the state values of that
\* moment and is a separate map that later writes to the state do not
\* change.
C32_StepCompletedOnce ==
    /\ C32_ProcessedTasks
    /\ [](\A s \in StepIds :
             /\ Cardinality(TaskCompletions(s)) <= Cardinality(FinishedTasks(s))
             /\ pc = "done" =>
                   Cardinality(TaskCompletions(s)) = Cardinality(FinishedTasks(s)))

\* A finished run of the race flow: the snapshot emitted with the first
\* set-state step shows x as that step wrote it, while the state holds the
\* value the second one wrote afterwards.
C32_Witness ==
    /\ pc = "done"
    /\ flow = "race"
    /\ \E i \in Completions :
          /\ events[i].state_snapshot.kind = "copy"
          /\ <<"x">> \in DOMAIN events[i].state_snapshot.items
          /\ events[i].state_snapshot.items[<<"x">>] # state.values[<<"x">>]


-----------------------------------------------------------------------------
\* The ids in pending that the flow index cannot resolve
Unresolvable == {s \in pending : ~has_step(s)}

\* No event, result or task is ever made for an id the flow has no step
\* for, and the tracker of such an id is all that remembers it
C33_NothingRecorded ==
    /\ \A i \in DOMAIN events : IsStepEvent(events[i]) => has_step(events[i].step_id)
    /\ \A i \in DOMAIN results : has_step(results[i].step_id)
    /\ \A t \in DOMAIN tasks : has_step(tasks[t].step_id)
    /\ \A s \in DOMAIN running : has_step(s)

\* The launch selection removes the unresolvable ids from pending and does
\* nothing else for them
C33_DiscardStep ==
    (pc = "loop" /\ pc' = "launch")
    => /\ pending' = pending \ Unresolvable
       /\ \A i \in DOMAIN steps_to_launch' : has_step(steps_to_launch'[i])
       /\ UNCHANGED <<events, results, tasks, running>>

\* C33: a step id in pending that the flow index cannot resolve (an
\* unknown trigger_step_id, or an edge target missing from the index) is
\* silently discarded: it is removed from pending in the next launch
\* selection, no StepStarted or StepCompleted is emitted for it, no result
\* is recorded for it, and the run still ends with FlowCompleted.
C33_UnresolvableDiscarded ==
    /\ []C33_NothingRecorded
    /\ [][C33_DiscardStep]_vars
    /\ (Unresolvable # {}) ~> (pc = "done" /\ Last(events).type = "FlowCompleted")

\* A finished run in which D completed and its edge to Z, a step the flow
\* does not have, was routed: Z has an arrival in its tracker and nothing
\* else came of it.
C33_Witness ==
    /\ pc = "done"
    /\ flow = "parallel"
    /\ "D" \in DOMAIN join_trackers["Z"]
    /\ pending = {}
    /\ Last(events).type = "FlowCompleted"
    /\ \A i \in DOMAIN events : IsStepEvent(events[i]) => events[i].step_id # "Z"


-----------------------------------------------------------------------------
\* The completions of a step that have been routed along an edge back to
\* the step itself
RoutedBack(s) == Cardinality({i \in DOMAIN results : results[i].step_id = s /\ Delivered(i, s)})

\* On the cyclic flow every completion of A puts A back in pending, from
\* where the next launch round takes it: A is pending, selected, or
\* launched once more than its completions were routed, and the loop is
\* never left
C34_Replays ==
    flow = "cycle" =>
       /\ pc \notin {"final", "done"}
       /\ \A i \in DOMAIN events : events[i].type # "FlowCompleted"
       /\ RoutedBack("A") > 0 =>
             \/ "A" \in pending
             \/ In("A", steps_to_launch)
             \/ Launches("A") > RoutedBack("A")

\* C34: cycles are not rejected: on a flow with a cycle reachable from the
\* trigger whose steps keep firing the cycle's edges, the runner launches
\* the step on the cycle again on every traversal, so its launches grow
\* without bound (they reach every cap put on them) and FlowCompleted is
\* never emitted.
C34_CyclesReplay ==
    /\ []C34_Replays
    /\ (flow = "cycle") => <>(Launches("A") = MaxLaunches)

\* A run on the cyclic flow in which A was launched again after its own
\* completion was routed back to it, and which has not ended.
C34_Witness ==
    /\ flow = "cycle"
    /\ Launches("A") = MaxLaunches
    /\ RoutedBack("A") = MaxLaunches - 1
    /\ "A" \in DOMAIN running
    /\ pc = "wait"

-----------------------------------------------------------------------------
\* steps/triggers/webhook.py: the keys of TriggerWebhook.outputs()
TriggerOutputs == {<<"body">>, <<"headers">>, <<"method">>, <<"query">>}

\* The tasks of the trigger step
TriggerTasks == {t \in DOMAIN tasks : tasks[t].step_id = trigger_step_id}

\* A step in which the driver moves: it selects, launches, emits, takes
\* results or routes
DriverMoves ==
    <<pc, pending, running, join_trackers, results, step_start_times,
      steps_to_launch, done, events>>'
       # <<pc, pending, running, join_trackers, results, step_start_times,
           steps_to_launch, done, events>>

C35_DriverStep ==
    /\ DriverMoves => state' = state
    /\ FinishNow = {} => state' = state
    /\ FinishNow \cap TriggerTasks # {} => state' = state

C35_OutputsAsSeeded ==
    \A k \in TriggerOutputs :
       /\ k \in DOMAIN state.values <=> k \in DOMAIN initial_state(flow).values
       /\ k \in DOMAIN state.values => state.values[k] = initial_state(flow).values[k]

-----------------------------------------------------------------------------
\* flow/runner.py: a JoinTracker used on its own, as tests/test_runner.py
\* does: the caller records arrivals and asks is_ready with a join mode and
\* a list of edges of the flow.  The tracker is the one of step "C".

\* The sources the caller records arrivals from
ArrivalSources == {"T", "A", "B"}

\* The tracker the caller uses
tracker == join_trackers["C"]

JoinInit ==
    /\ flow \in DOMAIN Flows
    /\ trigger_step_id \in Flows[flow].triggers
    /\ pc = "idle"
    /\ pending = {}
    /\ running = EmptyMap
    /\ join_trackers = [s \in StepIds |-> EmptyMap]
    /\ results = << >>
    /\ step_start_times = EmptyMap
    /\ steps_to_launch = << >>
    /\ done = {}
    /\ tasks = << >>
    /\ events = << >>
    /\ clock = 0
    /\ state = StateContainer(EmptyMap, EmptyMap)
    /\ steps = << >>
    /\ edges = << >>
    /\ call = NoCall

\* tracker.record(StepRunResult(step_id=source, status=status), edge)
RecordArrival ==
    \E source \in ArrivalSources, status \in {SUCCESS, ERROR} :
       /\ join_trackers' =
             [join_trackers EXCEPT !["C"] =
                record(tracker, StepRunResult(source, status, Default, FALSE, None),
                       [source_step_id |-> source])]
       /\ call' = [op |-> "record", join_mode |-> NO_WAIT, incoming_edges |-> {},
                   ret |-> FALSE]
       /\ UNCHANGED <<flow, trigger_step_id, pc, pending, running, results,
                      step_start_times, steps_to_launch, done, tasks, events, clock,
                      state, steps, edges>>

\* tracker.is_ready(join_mode, incoming_edges): no statement of is_ready
\* assigns to self.arrivals.
AskReady ==
    \E join_mode \in JoinMode, incoming_edges \in SUBSET DOMAIN TheFlow.edges :
       /\ call' = [op |-> "is_ready", join_mode |-> join_mode,
                   incoming_edges |-> incoming_edges,
                   ret |-> is_ready(tracker, join_mode, incoming_edges)]
       /\ UNCHANGED <<runVars, state, steps, edges>>

JoinNext ==
    \/ RecordArrival
    \/ AskReady

JoinSpec == JoinInit /\ [][JoinNext]_vars

\* The distinct sources of the edges the last call was given
ExpectedSources == {TheFlow.edges[i].source_step_id : i \in call.incoming_edges}

\* The sources that have an arrival in the tracker
ArrivedSources == DOMAIN tracker

AllRecordedSucceeded == \A s \in ArrivedSources : tracker[s].status = SUCCESS

C36_Table ==
    call.op = "is_ready" =>
       /\ call.join_mode = NO_WAIT =>
             (call.ret <=> Cardinality(ArrivedSources) >= 1)
       /\ call.join_mode = ALL_SUCCESS =>
             (call.ret <=> (ArrivedSources = ExpectedSources /\ AllRecordedSucceeded))
       /\ call.join_mode = ALL_DONE =>
             (call.ret <=> ArrivedSources = ExpectedSources)
       /\ call.join_mode = FIRST_SUCCESS =>
             (call.ret <=> \E s \in ArrivedSources : tracker[s].status = SUCCESS)

C36_AskStep == call'.op = "is_ready" => join_trackers' = join_trackers

\* C36: is_ready agrees with the join table for every tracker content and
\* every set of incoming edges: NO_WAIT is true exactly when an arrival is
\* recorded, ALL_SUCCESS exactly when the arrived sources are the distinct
\* sources of the edges and every recorded result is SUCCESS, ALL_DONE
\* exactly when the arrived sources are those sources, FIRST_SUCCESS
\* exactly when a recorded result is SUCCESS; and a call of is_ready
\* leaves the tracker as it was.
C36_IsReadyTable == []C36_Table /\ [][C36_AskStep]_vars

\* Every expected source has arrived, two of them, and one with ERROR:
\* ALL_SUCCESS answered no.
C36_Witness ==
    /\ call.op = "is_ready"
    /\ call.join_mode = ALL_SUCCESS
    /\ Cardinality(ExpectedSources) = 2
    /\ ArrivedSources = ExpectedSources
    /\ ~AllRecordedSucceeded
    /\ ~call.ret

-----------------------------------------------------------------------------
\* The ports failure is said to give when it is called with fired_ports
ChosenPorts(fired_ports) == IF fired_ports # << >> THEN fired_ports ELSE <<"default">>

\* The behaviours of task t's step that end in StepRunResult.failure and
\* give the result the task finished with, but for its ports
FailureCalls(t) ==
    {o \in get_step(tasks[t].step_id).outcomes :
        /\ o.kind = "failure"
        /\ tasks'[t].result.status = ERROR
        /\ tasks'[t].result.code = o.code}

C37_FailureStep ==
    \A t \in FinishNow :
       \A o \in FailureCalls(t) : tasks'[t].result.fired_ports = ChosenPorts(o.fired_ports)

\* The targets of the edges that leave step s on one of the ports
TargetsOn(s, fired_ports) ==
    {TheFlow.edges[i].target_step_id :
        i \in {j \in DOMAIN TheFlow.edges :
                  /\ TheFlow.edges[j].source_step_id = s
                  /\ In(TheFlow.edges[j].source_port, fired_ports)}}

C37_RouteStep ==
    (pc = "route" /\ pc' # "route" /\ ~Last(results).continue_without_waiting) =>
       LET result == Last(results)
           targets == TargetsOn(result.step_id, result.fired_ports)
       IN /\ pending' = pending \cup targets
          /\ \A s \in StepIds :
                join_trackers'[s] = IF s \in targets
                                    THEN MapSet(join_trackers[s], result.step_id, result)
                                    ELSE join_trackers[s]

\* The driver routes a result of either status along the ports it declares
\* and no others.
C37_RoutesDeclaredPorts == [][C37_RouteStep]_vars

\* C37: an ERROR result keeps the ports the step chose: failure called
\* with a non-empty fired_ports gives a result with these ports, and
\* ["default"] when none is given, and the driver routes an ERROR result
\* along exactly the ports it declares, as it does a SUCCESS result.
C37_ErrorKeepsPorts == [][C37_FailureStep /\ C37_RouteStep]_vars

\* An ERROR result that declares port q was routed to the target of the
\* edge on q.
C37_Witness ==
    /\ flow = "parallel"
    /\ \E i \in DOMAIN results :
          /\ results[i].step_id = "C"
          /\ results[i].status = ERROR
          /\ results[i].fired_ports = <<"q">>
          /\ "C" \in DOMAIN join_trackers["D"]
          /\ join_trackers["D"]["C"] = results[i]

-----------------------------------------------------------------------------
\* C38: a step with join mode FIRST_SUCCESS is launched at most once in a
\* run: once it has been launched on the first SUCCESS arrival, the
\* arrivals from its other sources, successful or not, do not launch it
\* again.
C38_FirstSuccessOnce ==
    \A s \in DOMAIN TheFlow.steps :
       get_step(s).join_mode = FIRST_SUCCESS => Launches(s) <= 1

-----------------------------------------------------------------------------
\* The start step can never be launched: the flow has no step of this id,
\* or the step has incoming edges and a join mode that waits for them.
NeverStarts ==
    IF has_step(trigger_step_id)
    THEN /\ get_edges_to(trigger_step_id) # {}
         /\ get_step(trigger_step_id).join_mode # NO_WAIT
    ELSE TRUE

C39_NoResult ==
    /\ NeverStarts =>
          /\ results = << >>
          /\ \A i \in DOMAIN events : events[i].type \in {"FlowStarted", "FlowCompleted"}
    /\ (pc = "done" /\ results = << >>) =>
          events = <<FlowStarted, FlowCompleted("succeeded")>>

\* C39: a run in which no step result is recorded, because the trigger id
\* is not a step of the flow or the start step has incoming edges and a
\* join mode other than NO_WAIT, emits FlowStarted and FlowCompleted and
\* nothing else, the status of FlowCompleted is "succeeded", and such a
\* run does end.
C39_EmptyRunSucceeds == []C39_NoResult /\ (NeverStarts ~> pc = "done")

\* The run of the ALL_SUCCESS diamond started at its join has ended: the
\* join is still pending, nothing was recorded.
C39_Witness ==
    /\ pc = "done"
    /\ flow = "diamond_all_success"
    /\ trigger_step_id = "C"
    /\ pending = {"C"}
    /\ results = << >>
    /\ events = <<FlowStarted, FlowCompleted("succeeded")>>

=============================================================================
